---- MODULE Spec2Model ----
(***************************************************************************)
(* LedgerFlow: the durable task queue and scheduler (automation.py), the   *)
(* alerts engine (alerts.py), the delivery pipeline (alert_delivery.py),   *)
(* CSV import (server.py) and the secondary index against the reducer      *)
(* (index_db.py, ledger.py), as state machines over the files of the data  *)
(* directory.  Time is counted in whole seconds.                           *)
(***************************************************************************)
EXTENDS Integers, Sequences, FiniteSets, TLC

\* ------------------------------------------------------------------ bounds
MaxTime == 3
MaxTasks == 2
ConcMaxTime == 2
MaxDay == 1
MaxDueTasks == 3
AlertMaxDay == 2
MaxEvents == 3
DeliveryMaxEvents == 2
MaxSent == 3
MaxTxs == 2
MaxCorrs == 2
MaxDocs == 3
MaxCrashes == 1
MaxAudit == 2
MaxItems == 2

\* ------------------------------------------------------------- generalities
NoVal == -1

Max(a, b) == IF a >= b THEN a ELSE b

RECURSIVE Pow2(_)
Pow2(n) == IF n <= 0 THEN 1 ELSE 2 * Pow2(n - 1)

Workers == {"w1", "w2"}

VARIABLES
    now,        \* the wall clock, in seconds
    queue,      \* automation/queue.json: the sequence doc["tasks"]
    nextId,     \* counter standing for new_id("tsk")
    pc,         \* per worker: "idle", "claiming" (inside _claim_next_task), "running"
    held,       \* per worker: the task row _claim_next_task returned
    snap,       \* per worker: the document _claim_next_task read
    ret,        \* the last run_next_task result: the caller and the status returned
    grant,      \* history: per taskId, the last claim that returned it and is not finished
    lostUpdate, \* history: some claim rewrote the file from a document that was no longer current
    hist,       \* history: per taskId, the results run_next_task returned where calls do not overlap
    jobs,       \* automation/jobs.json: the sequence doc["jobs"]
    lastSlots,  \* automation/state.json: lastSlots, per job id
    dueRet,     \* the result of the last enqueue_due_jobs call
    alertRules, \* alerts/alert_rules.json: the sequence cfg["rules"]
    ledger,     \* the transactions of the ledger view that run_alerts loads
    alertState, \* alerts/state.json: lastRun and lastTriggeredPeriodKey per rule id
    events,     \* alerts/events.jsonl
    alertRet,   \* the result of the last run_alerts call
    channels,   \* alerts/delivery_rules.json: the sequence cfg["channels"]
    deliveryState, \* alerts/delivery_state.json: the row of each channel id
    deliveryLastRun, \* alerts/delivery_state.json: lastRun
    outbox,     \* alerts/outbox.jsonl
    sent,       \* history: per channel id, the events its sink accepted, in call order
    deliverRet, \* the result of the last deliver_alert_events call
    crashed,    \* history: a deliver call stopped between a sink call and the state write
    sourcesIndex, \* sources/index.json: the sequence index["docs"]
    txlog,      \* ledger/transactions.jsonl
    corrlog,    \* ledger/corrections.jsonl
    index,      \* the sqlite index: transactions rows by tx_id, corrections event ids
    hookFailed, \* history: an index update raised inside append_jsonl
    appendRaised, \* whether the last append_jsonl call on a ledger file raised
    importRet,  \* the result of the last csv import
    registerRet, \* the last register_file call: the path given and the doc returned
    schemaState, \* meta/schema_state.json: version and the steps of history
    migrateRet, \* the result of the last migrate_to_latest call
    keyStore,   \* app.state.api_keys: the key metadata by token
    auditLog,   \* meta/audit.jsonl
    response,   \* the outcome of the last request that went through the middleware
    fileText,   \* the text of a json document on disk that write_json rewrites
    fileWrite,  \* the write_json call on that document: open, the object, what was written
    workerRet   \* the last run_worker call: max_tasks, the counters returned, the claims made

qvars == <<now, queue, nextId, pc, held, snap, ret, grant, lostUpdate, hist>>

svars == <<jobs, lastSlots, dueRet>>

avars == <<alertRules, ledger, alertState, events, alertRet>>

dvars == <<channels, deliveryState, deliveryLastRun, outbox, sent, deliverRet, crashed>>

lvars == <<sourcesIndex, txlog, corrlog, index, hookFailed, appendRaised, importRet,
           registerRet>>

mvars == <<schemaState, migrateRet>>

hvars == <<keyStore, auditLog, response>>

fvars == <<fileText, fileWrite>>

wvars == <<workerRet>>

vars == <<qvars, svars, avars, dvars, lvars, mvars, hvars, fvars, wvars>>

\* ---------------------------------------------------------------- the queue
NoTask ==
    [taskId |-> 0, taskType |-> "", status |-> "none", attempts |-> 0, maxRetries |-> 0,
     availableAt |-> NoVal, lockedAt |-> NoVal, workerId |-> "none",
     finishedAt |-> FALSE, error |-> FALSE, result |-> FALSE, source |-> "none"]

NoGrant == [w |-> "none", at |-> NoVal, ttl |-> 0]

NoHist == [execs |-> 0, dones |-> 0, retries |-> 0, failures |-> 0, delay |-> 0]

\* the history of a task after a run_next_task that returned `status` for it,
\* with the retry delay it passed to _finish_task
Counted(h, status, delay) ==
    [execs |-> h.execs + 1,
     dones |-> h.dones + (IF status = "done" THEN 1 ELSE 0),
     retries |-> h.retries + (IF status = "queued" THEN 1 ELSE 0),
     failures |-> h.failures + (IF status = "failed" THEN 1 ELSE 0),
     delay |-> IF status = "queued" THEN delay ELSE h.delay]

\* _parse_ts: a missing value reads as the current time
ParseTs(value, t) == IF value = NoVal THEN t ELSE value

\* enqueue_task: the task row it builds
NewTask(id, taskType, runAt, maxRetries, source, t) ==
    [taskId |-> id, taskType |-> taskType, status |-> "queued", attempts |-> 0,
     maxRetries |-> Max(0, maxRetries),
     availableAt |-> ParseTs(runAt, t), lockedAt |-> NoVal, workerId |-> "none",
     finishedAt |-> FALSE, error |-> FALSE, result |-> FALSE,
     source |-> IF source = "" THEN "manual" ELSE source]

\* _claim_next_task: lock_ttl = timedelta(seconds=max(1, int(lock_ttl_seconds)))
LockTtl(lockTtlSeconds) == Max(1, lockTtlSeconds)

\* _claim_next_task.stale_running
StaleRunningAtTtl(x, t, ttl) ==
    /\ x.status = "running"
    /\ t - ParseTs(x.lockedAt, t) >= ttl

\* a claim that takes a running task back only if it has no lockedAt, which a
\* claimed row never lacks
StaleRunningNever(x, t, ttl) ==
    /\ x.status = "running"
    /\ t - ParseTs(x.lockedAt, t) > ttl
    /\ x.lockedAt = NoVal

StaleRunning(x, t, ttl) ==
    /\ x.status = "running"
    /\ t - ParseTs(x.lockedAt, t) > ttl

\* _claim_next_task: the candidate rows (as positions of the document)
Candidates(doc, t, ttl) ==
    {i \in 1..Len(doc) :
        /\ doc[i].status \in {"queued", "running"}
        /\ (doc[i].status = "running" => StaleRunning(doc[i], t, ttl))
        /\ ParseTs(doc[i].availableAt, t) <= t}

\* a claim that takes the first candidate of the file whatever its availableAt
PickedFirstInFile(doc, t, ttl) ==
    LET c == Candidates(doc, t, ttl)
    IN  CHOOSE i \in c : \A j \in c : i <= j

\* candidates.sort(key=availableAt); picked = candidates[0]  (the sort is stable)
Picked(doc, t, ttl) ==
    LET c == Candidates(doc, t, ttl)
    IN  CHOOSE i \in c :
            \A j \in c : \/ doc[i].availableAt < doc[j].availableAt
                         \/ (doc[i].availableAt = doc[j].availableAt /\ i <= j)

\* the first row of the document that carries the task id
FirstRow(doc, id) ==
    IF \E i \in 1..Len(doc) : doc[i].taskId = id
    THEN CHOOSE i \in 1..Len(doc) :
            /\ doc[i].taskId = id
            /\ \A j \in 1..(i - 1) : doc[j].taskId # id
    ELSE 0

\* _claim_next_task: the row update of the picked task
ClaimRow(row, t, w) ==
    [row EXCEPT !.status = "running", !.lockedAt = t, !.workerId = w,
                !.attempts = row.attempts + 1]

\* _claim_next_task: the document it writes
ClaimDoc(doc, t, w, ttl) ==
    LET k == FirstRow(doc, doc[Picked(doc, t, ttl)].taskId)
    IN  [doc EXCEPT ![k] = ClaimRow(doc[k], t, w)]

\* a _finish_task that stamps finishedAt whatever the status
FinishRowStampsAlways(row, status, hasResult, hasError, delay, t) ==
    LET r1 == [row EXCEPT !.status = status,
                          !.result = IF hasResult THEN TRUE ELSE row.result,
                          !.error = IF hasError THEN TRUE ELSE row.error,
                          !.finishedAt = TRUE]
    IN  IF status = "queued" /\ delay > 0
        THEN [r1 EXCEPT !.availableAt = t + delay, !.lockedAt = NoVal, !.workerId = "none"]
        ELSE r1

\* _finish_task: the row update
FinishRow(row, status, hasResult, hasError, delay, t) ==
    LET r1 == [row EXCEPT !.status = status,
                          !.result = IF hasResult THEN TRUE ELSE row.result,
                          !.error = IF hasError THEN TRUE ELSE row.error]
        r2 == IF status = "queued" /\ delay > 0
              THEN [r1 EXCEPT !.availableAt = t + delay, !.lockedAt = NoVal,
                              !.workerId = "none"]
              ELSE r1
    IN  IF status \in {"done", "failed"} THEN [r2 EXCEPT !.finishedAt = TRUE] ELSE r2

\* a _finish_task that drops the row of a task it finishes as done or failed
FinishDocDropsTerminal(doc, id, status, hasResult, hasError, delay, t) ==
    IF status \in {"done", "failed"}
    THEN SelectSeq(doc, LAMBDA x : x.taskId # id)
    ELSE LET k == FirstRow(doc, id)
         IN  IF k = 0 THEN doc
             ELSE [doc EXCEPT ![k] = FinishRow(doc[k], status, hasResult, hasError, delay, t)]

\* _finish_task: the document it writes
FinishDoc(doc, id, status, hasResult, hasError, delay, t) ==
    LET k == FirstRow(doc, id)
    IN  IF k = 0 THEN doc
        ELSE [doc EXCEPT ![k] = FinishRow(doc[k], status, hasResult, hasError, delay, t)]

\* a run_next_task that retries only while attempts < maxRetries
RetryAllowedBelow(task) ==
    (IF task.attempts = 0 THEN 1 ELSE task.attempts) < task.maxRetries

\* run_next_task: what the except branch does with the claimed row
RetryAllowed(task) ==
    (IF task.attempts = 0 THEN 1 ELSE task.attempts) <= task.maxRetries

RetryDelay(task) ==
    Pow2(Max(0, (IF task.attempts = 0 THEN 1 ELSE task.attempts) - 1))

\* ------------------------------------------------------------ the scheduler
NoSlot == <<>>

\* the outcome of _job_slot when int() or datetime.replace raises ValueError
Raised == <<"raised">>

JobIds == {"daily_build", "hourly_alerts", "weekly_report", "off", "broken"}

NoDueRet == [at |-> NoVal, created |-> {}, skipped |-> {}, raised |-> FALSE]

\* datetime fields of a timestamp given in seconds; day 0 is a Monday
DayOf(at) == at \div 86400

SecondOfDay(at) == at % 86400

HourOf(at) == SecondOfDay(at) \div 3600

\* _weekday_name
WeekdayName(at) ==
    <<"mon", "tue", "wed", "thu", "fri", "sat", "sun">>[(DayOf(at) % 7) + 1]

\* hh, mm = [int(x) for x in at_hm.split(":", 1)] and at.replace(hour=hh, minute=mm):
\* the second of the day, or NoVal where either raises
ParseHm(atHm) ==
    CASE atHm = "08:00" -> 8 * 3600
      [] atHm = "07:30" -> 7 * 3600 + 30 * 60
      [] atHm = "00:00" -> 0
      [] OTHER -> NoVal

\* a _job_slot that gives every job a slot per day whatever the time of day,
\* the weekday or the hour
JobSlotWholeDay(job, at) == <<"daily", DayOf(at), "00:00">>

\* _job_slot
JobSlot(job, at) ==
    LET sch == job.schedule
        freq == IF sch.freq = "" THEN "daily" ELSE sch.freq
        atHm == IF sch.at = "" THEN "00:00" ELSE sch.at
    IN  CASE freq = "daily" ->
                IF ParseHm(atHm) = NoVal THEN Raised
                ELSE IF SecondOfDay(at) >= ParseHm(atHm)
                     THEN <<"daily", DayOf(at), atHm>>
                     ELSE NoSlot
          [] freq = "weekly" ->
                LET day == IF sch.day = "" THEN "mon" ELSE sch.day
                IN  IF WeekdayName(at) # day THEN NoSlot
                    ELSE IF ParseHm(atHm) = NoVal THEN Raised
                    ELSE IF SecondOfDay(at) >= ParseHm(atHm)
                         THEN <<"weekly", DayOf(at), atHm, day>>
                         ELSE NoSlot
          [] freq = "hourly" ->
                LET interval == Max(1, IF sch.interval = 0 THEN 1 ELSE sch.interval)
                IN  IF HourOf(at) % interval = 0
                    THEN <<"hourly", DayOf(at), HourOf(at), interval>>
                    ELSE NoSlot
          [] OTHER -> NoSlot

\* enqueue_due_jobs: max_retries = int(task.get("maxRetries") or 2)
JobMaxRetries(job) == IF job.maxRetries = 0 THEN 2 ELSE job.maxRetries

\* the loop body without the lastSlots comparison
DueStepAlways(acc, job, at) ==
    IF acc.raised \/ ~job.enabled \/ job.id = "" THEN acc
    ELSE LET slot == JobSlot(job, at)
         IN  IF slot = Raised THEN [acc EXCEPT !.raised = TRUE]
             ELSE IF slot = NoSlot \/ job.taskType = "" THEN acc
             ELSE [acc EXCEPT
                     !.queue = Append(acc.queue,
                                 NewTask(acc.nextId, job.taskType, at, JobMaxRetries(job), job.id, at)),
                     !.nextId = acc.nextId + 1,
                     !.lastSlots = [acc.lastSlots EXCEPT ![job.id] = slot],
                     !.created = acc.created \cup {job.id}]

\* enqueue_due_jobs: one pass of the loop body over `job`; acc carries the
\* queue document, last_slots, created, skipped and whether _job_slot raised
DueStep(acc, job, at) ==
    IF acc.raised \/ ~job.enabled \/ job.id = "" THEN acc
    ELSE LET slot == JobSlot(job, at)
         IN  IF slot = Raised THEN [acc EXCEPT !.raised = TRUE]
             ELSE IF slot = NoSlot THEN acc
             ELSE IF acc.lastSlots[job.id] = slot
                  THEN [acc EXCEPT !.skipped = acc.skipped \cup {job.id}]
             ELSE IF job.taskType = "" THEN acc
             ELSE [acc EXCEPT
                     !.queue = Append(acc.queue,
                                 NewTask(acc.nextId, job.taskType, at, JobMaxRetries(job), job.id, at)),
                     !.nextId = acc.nextId + 1,
                     !.lastSlots = [acc.lastSlots EXCEPT ![job.id] = slot],
                     !.created = acc.created \cup {job.id}]

\* enqueue_due_jobs: the loop over the first k jobs
RECURSIVE DueLoop(_, _, _, _)
DueLoop(js, k, at, acc) ==
    IF k = 0 THEN acc ELSE DueStep(DueLoop(js, k - 1, at, acc), js[k], at)

\* enqueue_due_jobs.  enqueue_task rewrites queue.json inside the loop; the state
\* file is written after the loop, so not when _job_slot raised.
EnqueueDueJobs(at) ==
    LET acc0 == [queue |-> queue, nextId |-> nextId, lastSlots |-> lastSlots,
                 created |-> {}, skipped |-> {}, raised |-> FALSE]
        acc == DueLoop(jobs, Len(jobs), at, acc0)
    IN  /\ Len(acc.queue) <= MaxDueTasks
        /\ queue' = acc.queue
        /\ nextId' = acc.nextId
        /\ lastSlots' = IF acc.raised THEN lastSlots ELSE acc.lastSlots
        /\ dueRet' = [at |-> at, created |-> acc.created, skipped |-> acc.skipped,
                      raised |-> acc.raised]
        /\ UNCHANGED <<now, pc, held, snap, ret, grant, lostUpdate, hist, jobs, avars, dvars,
                       lvars, mvars, hvars, fvars, wvars>>

Job(id, enabled, freq, atHm, day, interval, taskType, maxRetries) ==
    [id |-> id, enabled |-> enabled,
     schedule |-> [freq |-> freq, at |-> atHm, day |-> day, interval |-> interval],
     taskType |-> taskType, maxRetries |-> maxRetries]

\* jobs documents that write_jobs accepts
JobsDocs ==
    {<<Job("daily_build", TRUE, "daily", "08:00", "", 0, "build", 0),
       Job("hourly_alerts", TRUE, "hourly", "", "", 7, "alerts.run", 1)>>,
     <<Job("off", FALSE, "daily", "", "", 0, "build", 0),
       Job("weekly_report", TRUE, "weekly", "07:30", "tue", 0, "report.monthly", 1),
       Job("broken", TRUE, "daily", "8am", "", 0, "build", 0)>>}

\* jobs payloads given to write_jobs: a job without task.type, a weekly job
\* whose day is not one of mon..sun, a daily job whose at is not HH:MM, and
\* well-formed jobs
JobsPayloads ==
    {<<Job("daily_build", TRUE, "daily", "08:00", "", 0, "", 0)>>,
     <<Job("weekly_report", TRUE, "weekly", "07:30", "monday", 0, "report.monthly", 1)>>,
     <<Job("daily_build", TRUE, "daily", "07:30", "", 0, "build", 1),
       Job("broken", TRUE, "daily", "8am", "", 0, "build", 1)>>,
     <<Job("daily_build", TRUE, "daily", "08:00", "", 0, "build", 1),
       Job("weekly_report", TRUE, "weekly", "07:30", "mon", 0, "report.monthly", 1),
       Job("hourly_alerts", TRUE, "hourly", "", "", 7, "alerts.run", 1)>>}

\* write_jobs: the checks of the loop over the rows
JobsRejected(doc) == \E k \in 1..Len(doc) : doc[k].id = "" \/ doc[k].taskType = ""

\* write_jobs
WriteJobs(doc) ==
    /\ jobs' = IF JobsRejected(doc) THEN jobs ELSE doc
    /\ UNCHANGED <<qvars, lastSlots, dueRet, avars, dvars, lvars, mvars, hvars, fvars, wvars>>

\* the job a task's source names
JobOf(id) == CHOOSE j \in UNION {{doc[k] : k \in 1..Len(doc)} : doc \in JobsDocs} : j.id = id

\* the slot a queued task of a job was created for
TaskSlot(task) == JobSlot(JobOf(task.source), task.availableAt)

\* the instants enqueue_due_jobs is called with
AtChoices ==
    {d * 86400 + s : d \in 0..MaxDay, s \in {7 * 3600, 8 * 3600, 8 * 3600 + 40 * 60}}

\* ------------------------------------------------------------ the alerts engine
NoKey == <<>>

\* the outcome of _period_key when it raises ValueError (unknown period)
KeyError == <<"raised">>

AlertRuleIds == {"food_month", "cash_day", "bad_period"}

NoAlertRet ==
    [at |-> NoVal, commit |-> FALSE, eventCount |-> 0, fired |-> <<>>, raised |-> FALSE]

\* dates are day numbers; day 0 is Friday 2026-01-30, day 2 is Sunday 2026-02-01
MonthOf(d) == IF d < 2 THEN 1 ELSE 2

IsoWeekday(d) == ((d + 4) % 7) + 1

IsoWeekOf(d) == 5 + ((d + 4) \div 7)

\* _period_key
PeriodKey(period, at) ==
    CASE period = "day" -> <<"day", at>>
      [] period = "month" -> <<"month", 2026, MonthOf(at)>>
      [] period = "week" -> <<"week", 2026, IsoWeekOf(at)>>
      [] OTHER -> KeyError

\* _period_bounds: first and last day of the period of `at`
PeriodBounds(period, at) ==
    CASE period = "day" -> <<at, at>>
      [] period = "month" -> IF MonthOf(at) = 1 THEN <<-29, 1>> ELSE <<2, 29>>
      [] period = "week" -> <<at - (IsoWeekday(at) - 1), at - (IsoWeekday(at) - 1) + 6>>
      [] OTHER -> <<0, -1>>

\* filter_by_date_range
FilterByDateRange(txs, from, to) == {tx \in txs : from <= tx.date /\ tx.date <= to}

RECURSIVE SumSpend(_)
SumSpend(txs) ==
    IF txs = {} THEN 0
    ELSE LET tx == CHOOSE x \in txs : TRUE IN (0 - tx.amount) + SumSpend(txs \ {tx})

\* _sum_category_spend: the debits of the category
SumCategorySpend(txs, categoryId) ==
    SumSpend({tx \in txs : tx.categoryId = categoryId /\ tx.amount < 0})

\* cash_heavy_day: the debits that are manual entries or carry the cash tag
SumCashSpend(txs) ==
    SumSpend({tx \in txs : tx.amount < 0 /\ (tx.sourceType = "manual" \/ tx.cashTag)})

\* the period the key of a rule is taken over
RulePeriod(rule) == IF rule.type = "cash_heavy_day" THEN "day" ELSE rule.period

RuleKey(rule, at) == PeriodKey(RulePeriod(rule), at)

\* the spend a rule compares with its limit
RuleSpend(rule, at, txs) ==
    LET b == PeriodBounds(RulePeriod(rule), at)
        scoped == FilterByDateRange(txs, b[1], b[2])
    IN  IF rule.type = "cash_heavy_day" THEN SumCashSpend(scoped)
        ELSE SumCategorySpend(scoped, rule.categoryId)

\* decimal_from_any(rule.get("limit")); cash_heavy_day defaults to 150
RuleLimit(rule) ==
    IF rule.limit # NoVal THEN rule.limit
    ELSE IF rule.type = "cash_heavy_day" THEN 150 ELSE 0

AlertEvent(id, rule, key, at) ==
    [eventId |-> id, ruleId |-> rule.id, type |-> rule.type, periodKey |-> key,
     scopeDate |-> at]

\* a loop body that appends the event and records the period key whether or
\* not commit is set
AlertStepCommits(acc, rule, at, commit) ==
    IF acc.raised \/ rule.id = "" \/ rule.type = "" THEN acc
    ELSE IF rule.type \notin {"category_budget", "cash_heavy_day"} THEN acc
    ELSE IF rule.type = "category_budget" /\ (rule.categoryId = "" \/ rule.period = "")
         THEN acc
    ELSE LET key == RuleKey(rule, at)
         IN  IF key = KeyError THEN [acc EXCEPT !.raised = TRUE]
             ELSE IF acc.rules[rule.id] = key THEN acc
             ELSE IF RuleSpend(rule, at, ledger) <= RuleLimit(rule) THEN acc
             ELSE LET ev == AlertEvent(Len(acc.events) + 1, rule, key, at)
                  IN  [acc EXCEPT
                         !.fired = Append(acc.fired, ev),
                         !.events = Append(acc.events, ev),
                         !.rules = [acc.rules EXCEPT ![rule.id] = key]]

\* the loop body without the lastTriggeredPeriodKey comparison
AlertStepAlways(acc, rule, at, commit) ==
    IF acc.raised \/ rule.id = "" \/ rule.type = "" THEN acc
    ELSE IF rule.type \notin {"category_budget", "cash_heavy_day"} THEN acc
    ELSE IF rule.type = "category_budget" /\ (rule.categoryId = "" \/ rule.period = "")
         THEN acc
    ELSE LET key == RuleKey(rule, at)
         IN  IF key = KeyError THEN [acc EXCEPT !.raised = TRUE]
             ELSE IF RuleSpend(rule, at, ledger) <= RuleLimit(rule) THEN acc
             ELSE LET ev == AlertEvent(Len(acc.events) + 1, rule, key, at)
                  IN  [acc EXCEPT
                         !.fired = Append(acc.fired, ev),
                         !.events = IF commit THEN Append(acc.events, ev) ELSE acc.events,
                         !.rules = IF commit THEN [acc.rules EXCEPT ![rule.id] = key]
                                   ELSE acc.rules]

\* run_alerts: one pass of the loop body over `rule`; acc carries events.jsonl,
\* state["rules"], the returned events and whether _period_key raised
AlertStep(acc, rule, at, commit) ==
    IF acc.raised \/ rule.id = "" \/ rule.type = "" THEN acc
    ELSE IF rule.type \notin {"category_budget", "cash_heavy_day"} THEN acc
    ELSE IF rule.type = "category_budget" /\ (rule.categoryId = "" \/ rule.period = "")
         THEN acc
    ELSE LET key == RuleKey(rule, at)
         IN  IF key = KeyError THEN [acc EXCEPT !.raised = TRUE]
             ELSE IF acc.rules[rule.id] = key THEN acc
             ELSE IF RuleSpend(rule, at, ledger) <= RuleLimit(rule) THEN acc
             ELSE LET ev == AlertEvent(Len(acc.events) + 1, rule, key, at)
                  IN  [acc EXCEPT
                         !.fired = Append(acc.fired, ev),
                         !.events = IF commit THEN Append(acc.events, ev) ELSE acc.events,
                         !.rules = IF commit THEN [acc.rules EXCEPT ![rule.id] = key]
                                   ELSE acc.rules]

\* run_alerts: the loop over the first k rules
RECURSIVE AlertLoop(_, _, _, _, _)
AlertLoop(rs, k, at, commit, acc) ==
    IF k = 0 THEN acc
    ELSE AlertStep(AlertLoop(rs, k - 1, at, commit, acc), rs[k], at, commit)

\* the rules of the events run_alerts returns, in their order
FiredRules(acc) == [i \in 1..Len(acc.fired) |-> acc.fired[i].ruleId]

\* run_alerts.  Events are appended inside the loop; the state file is saved
\* after the loop, when commit is set and nothing raised.
RunAlerts(at, commit) ==
    LET acc0 == [events |-> events, rules |-> alertState.rules, fired |-> <<>>,
                 raised |-> FALSE]
        acc == AlertLoop(alertRules, Len(alertRules), at, commit, acc0)
    IN  /\ Len(acc.events) <= MaxEvents
        /\ events' = acc.events
        /\ alertState' = IF commit /\ ~acc.raised
                         THEN [lastRun |-> now, rules |-> acc.rules]
                         ELSE alertState
        /\ alertRet' = [at |-> at, commit |-> commit, eventCount |-> Len(acc.fired),
                        fired |-> FiredRules(acc), raised |-> acc.raised]
        /\ UNCHANGED <<qvars, svars, alertRules, ledger, dvars, lvars, mvars, hvars, fvars, wvars>>

\* run_alerts with commit set, stopped with the process after the loop body of
\* the k-th rule appended its event: save_state is never reached
RunAlertsCrash(at, k) ==
    LET acc0 == [events |-> events, rules |-> alertState.rules, fired |-> <<>>,
                 raised |-> FALSE]
        acc == AlertLoop(alertRules, k, at, TRUE, acc0)
    IN  /\ k \in 1..Len(alertRules)
        /\ ~acc.raised
        /\ Len(acc.events) > Len(AlertLoop(alertRules, k - 1, at, TRUE, acc0).events)
        /\ Len(acc.events) <= MaxEvents
        /\ events' = acc.events
        /\ UNCHANGED <<qvars, svars, alertRules, ledger, alertState, alertRet, dvars, lvars,
                       mvars, hvars, fvars, wvars>>

Rule(id, type, period, categoryId, limit) ==
    [id |-> id, type |-> type, period |-> period, categoryId |-> categoryId,
     limit |-> limit]

\* rule documents of alert_rules.json
AlertRulesDocs ==
    {<<Rule("food_month", "category_budget", "month", "food", 100),
       Rule("cash_day", "cash_heavy_day", "", "", NoVal)>>,
     <<Rule("cash_day", "cash_heavy_day", "", "", NoVal),
       Rule("bad_period", "category_budget", "year", "food", 100)>>}

Tx(txId, date, categoryId, amount, sourceType, cashTag) ==
    [txId |-> txId, date |-> date, categoryId |-> categoryId, amount |-> amount,
     sourceType |-> sourceType, cashTag |-> cashTag]

\* the transactions that get added to the ledger
AlertTxPool ==
    {Tx("t1", 0, "food", -200, "bank_csv", FALSE),
     Tx("t2", 2, "food", -200, "bank_csv", FALSE),
     Tx("t3", 1, "fuel", -200, "manual", FALSE)}

\* a transaction is appended to the ledger (add_manual / an import commit)
AddTx(tx) ==
    /\ tx \notin ledger
    /\ ledger' = ledger \cup {tx}
    /\ UNCHANGED <<qvars, svars, alertRules, alertState, events, alertRet, dvars, lvars,
                   mvars, hvars, fvars, wvars>>

AlertDates == 0..AlertMaxDay

InitSched ==
    /\ jobs = <<>>
    /\ lastSlots = [j \in JobIds |-> NoSlot]
    /\ dueRet = NoDueRet

\* the alert files before any run
InitAlertFiles ==
    /\ ledger = {}
    /\ alertState = [lastRun |-> NoVal, rules |-> [r \in AlertRuleIds |-> NoKey]]
    /\ events = <<>>
    /\ alertRet = NoAlertRet

InitAlerts == alertRules = <<>> /\ InitAlertFiles

\* ------------------------------------------------------------ the delivery pipeline
ChannelIds == {"local_outbox", "second", "hook", "console", "off", "sms"}

\* a channel id without a row in the delivery state
NoRow == [cursor |-> NoVal, lastError |-> FALSE]

NoDeliverRet == [dryRun |-> FALSE, eventCount |-> 0, results |-> <<>>]

Min(a, b) == IF a <= b THEN a ELSE b

\* the cursor that accepts only values below the number of events
ToCursorBelow(value, maxValue) ==
    LET n == IF value = NoVal THEN 0 ELSE value
    IN  IF n < 0 \/ n >= maxValue THEN 0 ELSE n

\* _to_cursor; int(None) raises and gives 0
ToCursor(value, maxValue) ==
    LET n == IF value = NoVal THEN 0 ELSE value
    IN  IF n < 0 \/ n > maxValue THEN 0 ELSE n

\* the pending events taken from one position too far
PendingSkipsOne(evs, cursorBefore, limit) ==
    LET last == IF limit >= 0 THEN Min(Len(evs), cursorBefore + 1 + limit) ELSE Len(evs)
    IN  SubSeq(evs, cursorBefore + 2, last)

\* the pending events taken from the start of the file, whatever the cursor
PendingFromStart(evs, cursorBefore, limit) ==
    LET last == IF limit >= 0 THEN Min(Len(evs), limit) ELSE Len(evs)
    IN  SubSeq(evs, 1, last)

\* pending_all = events[cursor_before:], cut to limit when limit >= 0
Pending(evs, cursorBefore, limit) ==
    LET last == IF limit >= 0 THEN Min(Len(evs), cursorBefore + limit) ELSE Len(evs)
    IN  SubSeq(evs, cursorBefore + 1, last)

\* _deliver_to_channel raises on every call: webhook without url, unsupported type
SinkAlwaysRaises(channel) ==
    \/ channel.type \notin {"outbox", "stdout", "webhook"}
    \/ channel.type = "webhook" /\ channel.url = ""

\* a loop that counts the event its sink raised on as delivered
AcceptedPastFailure(channel, pending, dryRun, failAt) ==
    IF dryRun THEN Len(pending)
    ELSE IF SinkAlwaysRaises(channel) THEN Min(Len(pending), 1)
    ELSE IF channel.type = "webhook" /\ failAt # NoVal THEN Min(Len(pending), failAt + 1)
    ELSE Len(pending)

\* the number of pending events the sink accepts before it raises; failAt is the
\* number of requests the webhook endpoint answers with 2xx (NoVal: all of them)
Accepted(channel, pending, dryRun, failAt) ==
    IF dryRun THEN Len(pending)
    ELSE IF SinkAlwaysRaises(channel) THEN 0
    ELSE IF channel.type = "webhook" /\ failAt # NoVal THEN Min(Len(pending), failAt)
    ELSE Len(pending)

\* sink calls that write an event to the outbox file once for all channels
SinkCallsShared(acc, channel, pending, n) ==
    [acc EXCEPT
       !.sent = [acc.sent EXCEPT ![channel.id] = acc.sent[channel.id]
                    \o [i \in 1..n |-> pending[i].eventId]],
       !.outbox = IF channel.type = "outbox"
                  THEN acc.outbox \o SelectSeq(
                         [i \in 1..n |->
                            [channelId |-> channel.id, eventId |-> pending[i].eventId]],
                         LAMBDA row : \A j \in 1..Len(acc.outbox) :
                                         acc.outbox[j].eventId # row.eventId)
                  ELSE acc.outbox]

\* the sink calls of one channel: `n` events of pending are handed over
SinkCalls(acc, channel, pending, n) ==
    [acc EXCEPT
       !.sent = [acc.sent EXCEPT ![channel.id] = acc.sent[channel.id]
                    \o [i \in 1..n |-> pending[i].eventId]],
       !.outbox = IF channel.type = "outbox"
                  THEN acc.outbox \o [i \in 1..n |->
                         [channelId |-> channel.id, eventId |-> pending[i].eventId]]
                  ELSE acc.outbox]

\* a loop body that updates the row of the channel in a dry run too
DeliverStepSavesDryRun(acc, channel, limit, dryRun, failAt) ==
    LET cursorBefore == ToCursor(acc.state[channel.id].cursor, Len(events))
        pending == Pending(events, cursorBefore, limit)
        delivered == Accepted(channel, pending, dryRun, failAt)
        failed == IF delivered < Len(pending) THEN 1 ELSE 0
        result == [channelId |-> channel.id, pending |-> Len(pending),
                   delivered |-> delivered, failed |-> failed]
        acc1 == IF dryRun THEN acc ELSE SinkCalls(acc, channel, pending, delivered)
    IN  [acc1 EXCEPT
           !.results = Append(acc.results, result),
           !.state = [acc.state EXCEPT ![channel.id] =
                         [cursor |-> cursorBefore + delivered, lastError |-> failed = 1]]]

\* deliver_alert_events: one pass of the loop body over `channel`; acc carries the
\* delivery state, the outbox file, the sink history and the results
DeliverStep(acc, channel, limit, dryRun, failAt) ==
    LET cursorBefore == ToCursor(acc.state[channel.id].cursor, Len(events))
        pending == Pending(events, cursorBefore, limit)
        delivered == Accepted(channel, pending, dryRun, failAt)
        failed == IF delivered < Len(pending) THEN 1 ELSE 0
        cursorAfter == cursorBefore + delivered
        result == [channelId |-> channel.id, pending |-> Len(pending),
                   delivered |-> delivered, failed |-> failed]
        acc1 == IF dryRun THEN acc ELSE SinkCalls(acc, channel, pending, delivered)
    IN  [acc1 EXCEPT
           !.results = Append(acc.results, result),
           !.state = IF dryRun THEN acc.state
                     ELSE [acc.state EXCEPT ![channel.id] =
                             [cursor |-> cursorAfter, lastError |-> failed = 1]]]

\* deliver_alert_events: the loop over the first k selected channels
RECURSIVE DeliverLoop(_, _, _, _, _, _)
DeliverLoop(chs, k, limit, dryRun, failAt, acc) ==
    IF k = 0 THEN acc
    ELSE DeliverStep(DeliverLoop(chs, k - 1, limit, dryRun, failAt, acc), chs[k],
                     limit, dryRun, failAt)

\* the enabled channels, filtered by channel_ids when given
Selected(channelIds) ==
    SelectSeq(channels, LAMBDA c : c.enabled /\ (channelIds = {} \/ c.id \in channelIds))

DeliverAcc == [state |-> deliveryState, outbox |-> outbox, sent |-> sent,
               results |-> <<>>]

\* deliver_alert_events.  The state file is saved once, after the loop.
Deliver(limit, channelIds, dryRun, failAt) ==
    LET chs == Selected(channelIds)
        acc == DeliverLoop(chs, Len(chs), limit, dryRun, failAt, DeliverAcc)
    IN  /\ \A c \in ChannelIds : Len(acc.sent[c]) <= MaxSent
        /\ deliveryState' = acc.state
        /\ deliveryLastRun' = IF dryRun THEN deliveryLastRun ELSE now
        /\ outbox' = acc.outbox
        /\ sent' = acc.sent
        /\ deliverRet' = [dryRun |-> dryRun, eventCount |-> Len(events),
                          results |-> acc.results]
        /\ UNCHANGED <<qvars, svars, avars, channels, crashed, lvars, mvars, hvars, fvars, wvars>>

\* deliver_alert_events stopped by a crash: the channels before the k-th were
\* processed, the sink of the k-th accepted n events, the state was not saved
DeliverCrash(limit, channelIds, failAt, k, n) ==
    LET chs == Selected(channelIds)
        acc == DeliverLoop(chs, k - 1, limit, FALSE, failAt, DeliverAcc)
        cursorBefore == ToCursor(acc.state[chs[k].id].cursor, Len(events))
        pending == Pending(events, cursorBefore, limit)
        end == SinkCalls(acc, chs[k], pending, n)
    IN  /\ k \in 1..Len(chs)
        /\ n \in 1..Accepted(chs[k], pending, FALSE, failAt)
        /\ \A c \in ChannelIds : Len(end.sent[c]) <= MaxSent
        /\ outbox' = end.outbox
        /\ sent' = end.sent
        /\ crashed' = TRUE
        /\ UNCHANGED <<qvars, svars, avars, channels, deliveryState, deliveryLastRun,
                       deliverRet, lvars, mvars, hvars, fvars, wvars>>

Channel(id, type, enabled, url) ==
    [id |-> id, type |-> type, enabled |-> enabled, url |-> url]

\* channel lists of delivery_rules.json
DeliveryRulesDocs ==
    {<<Channel("hook", "webhook", TRUE, "https://hook"),
       Channel("local_outbox", "outbox", TRUE, "")>>,
     <<Channel("local_outbox", "outbox", TRUE, ""),
       Channel("second", "outbox", TRUE, "")>>,
     <<Channel("console", "stdout", TRUE, ""),
       Channel("off", "outbox", FALSE, ""),
       Channel("sms", "sms", TRUE, "")>>}

\* the calls made: <<limit, channel_ids, dry_run, failAt>>
DeliverCalls ==
    {<<-1, {}, FALSE, NoVal>>, <<1, {}, FALSE, NoVal>>,
     <<-1, {}, FALSE, 0>>, <<-1, {}, FALSE, 1>>,
     <<-1, {"hook"}, FALSE, NoVal>>, <<1, {}, TRUE, 0>>}

\* the delivery files before any call
InitDeliveryFiles ==
    /\ deliveryState = [c \in ChannelIds |-> NoRow]
    /\ deliveryLastRun = NoVal
    /\ outbox = <<>>
    /\ sent = [c \in ChannelIds |-> <<>>]
    /\ deliverRet = NoDeliverRet
    /\ crashed = FALSE

InitDelivery ==
    /\ channels = <<Channel("local_outbox", "outbox", TRUE, "")>>
    /\ InitDeliveryFiles

\* ------------------------------------------------------------ ledger, import and index
\* JSON values: a scalar carries a string, a dictionary a function of its keys
S(x) == [t |-> "s", v |-> x]

D(f) == [t |-> "d", v |-> f]

\* a JSON list
L(x) == [t |-> "l", v |-> x]

EmptyDict == [k \in {} |-> S("")]

\* str(d.get(k) or "")
Str(d, k) == IF k \in DOMAIN d /\ d[k].t = "s" THEN d[k].v ELSE ""

\* d.get(k) if isinstance(d.get(k), dict) else {}
Sub(d, k) == IF k \in DOMAIN d /\ d[k].t = "d" THEN d[k].v ELSE EmptyDict

\* a merge that replaces the value of every key the patch names
ShallowMerge(dst, patch) ==
    [k \in DOMAIN dst \cup DOMAIN patch |-> IF k \in DOMAIN patch THEN patch[k] ELSE dst[k]]

\* deep_merge_inplace (ledger.py) and _deep_merge_inplace (index_db.py)
RECURSIVE DeepMerge(_, _)
DeepMerge(dst, patch) ==
    [k \in DOMAIN dst \cup DOMAIN patch |->
        IF k \notin DOMAIN patch THEN dst[k]
        ELSE IF k \in DOMAIN dst /\ patch[k].t = "d" /\ dst[k].t = "d"
             THEN D(DeepMerge(dst[k].v, patch[k].v))
             ELSE patch[k]]

\* new_id: the n-th id of a kind
NewId(kind, n) == ToString(<<kind, n>>)

\* "sha256:" + sha256_bytes(canonical_json_bytes({docId, rowIndex, row}))
RowHash(docId, rowIndex, row) == ToString(<<"sha256", docId, rowIndex, row>>)

\* manual_entry_to_tx
ManualTx(n) ==
    [txId |-> S(NewId("tx", n)),
     source |-> D([docId |-> S(NewId("manual", n)), sourceType |-> S("manual"),
                   sourceHash |-> S("sha256:entry")]),
     merchant |-> S("cafe"),
     category |-> D([id |-> S("uncategorized"), reason |-> S("missing")]),
     tags |-> L(<<"lunch">>)]

\* csv_row_to_tx, for a row it can parse
CsvRowToTx(txId, docId, rowIndex, row) ==
    [txId |-> S(txId),
     source |-> D([docId |-> S(docId), sourceType |-> S("bank_csv"),
                   sourceHash |-> S(RowHash(docId, rowIndex, row))]),
     merchant |-> S(""),
     category |-> D([id |-> S("uncategorized"), reason |-> S("not_categorized_yet")])]

\* _tx_fields
TxFields(tx) ==
    [tx_id |-> Str(tx, "txId"),
     source_type |-> Str(Sub(tx, "source"), "sourceType"),
     source_doc_id |-> Str(Sub(tx, "source"), "docId"),
     source_hash |-> Str(Sub(tx, "source"), "sourceHash"),
     merchant |-> Str(tx, "merchant"),
     category_id |-> Str(Sub(tx, "category"), "id"),
     raw_json |-> tx]

IndexRow(fields, isDeleted) ==
    [tx_id |-> fields.tx_id, source_type |-> fields.source_type,
     source_doc_id |-> fields.source_doc_id, source_hash |-> fields.source_hash,
     merchant |-> fields.merchant, category_id |-> fields.category_id,
     raw_json |-> fields.raw_json, is_deleted |-> isDeleted]

\* upsert_transaction
UpsertTransaction(ix, tx, isDeleted) ==
    LET fields == TxFields(tx)
    IN  IF fields.tx_id = "" THEN ix
        ELSE [ix EXCEPT !.tx = [id \in DOMAIN ix.tx \cup {fields.tx_id} |->
                                   IF id = fields.tx_id THEN IndexRow(fields, isDeleted)
                                   ELSE ix.tx[id]]]

\* str(evt.get("type") or "patch")
EventType(evt) == IF evt.type = "" THEN "patch" ELSE evt.type

\* apply_correction_event
ApplyCorrectionEvent(ix, evt) ==
    IF evt.eventId = "" \/ evt.txId = "" THEN ix
    ELSE LET ix1 == [ix EXCEPT !.corr = ix.corr \cup {evt.eventId}]
         IN  IF evt.txId \notin DOMAIN ix.tx THEN ix1
             ELSE IF EventType(evt) = "patch"
                  THEN LET tx == ix.tx[evt.txId].raw_json
                           merged == IF evt.patch.t = "d" THEN DeepMerge(tx, evt.patch.v)
                                     ELSE tx
                           fields == TxFields(merged)
                       IN  IF fields.tx_id \notin DOMAIN ix.tx THEN ix1
                           ELSE [ix1 EXCEPT !.tx[fields.tx_id] =
                                   IndexRow(fields, ix.tx[fields.tx_id].is_deleted)]
             ELSE IF EventType(evt) \in {"tombstone", "delete"}
                  THEN [ix1 EXCEPT !.tx[evt.txId].is_deleted = TRUE]
             ELSE ix1

\* has_source_hash
HasSourceHash(ix, docId, sourceHash) ==
    \E id \in DOMAIN ix.tx :
        ix.tx[id].source_doc_id = docId /\ ix.tx[id].source_hash = sourceHash

\* apply_corrections: tx_by_id keeps the last line of each txId
LastLine(txs, txId) ==
    CHOOSE i \in 1..Len(txs) :
        /\ Str(txs[i], "txId") = txId
        /\ \A j \in (i + 1)..Len(txs) : Str(txs[j], "txId") # txId

\* apply_corrections: one pass of the loop over the correction events
ReduceStep(st, evt) ==
    IF evt.txId = "" \/ evt.txId \notin DOMAIN st.byId THEN st
    ELSE IF EventType(evt) = "patch"
         THEN IF evt.patch.t = "d" /\ DOMAIN evt.patch.v # {}
              THEN [st EXCEPT !.byId[evt.txId] = DeepMerge(st.byId[evt.txId], evt.patch.v),
                              !.applied = st.applied + 1]
              ELSE st
    ELSE IF EventType(evt) \in {"tombstone", "delete"}
         THEN [st EXCEPT !.deleted = st.deleted \cup {evt.txId}, !.applied = st.applied + 1]
    ELSE st

\* a loop that applies the events from the last line of the file to the first
RECURSIVE ReduceLoopReversed(_, _, _)
ReduceLoopReversed(corrs, k, st) ==
    IF k = 0 THEN st ELSE ReduceLoopReversed(corrs, k - 1, ReduceStep(st, corrs[k]))

RECURSIVE ReduceLoop(_, _, _)
ReduceLoop(corrs, k, st) ==
    IF k = 0 THEN st ELSE ReduceStep(ReduceLoop(corrs, k - 1, st), corrs[k])

\* apply_corrections
ApplyCorrections(txs, corrs, includeDeleted) ==
    LET kept == SelectSeq(txs, LAMBDA tx : Str(tx, "txId") # "")
        ids == {Str(kept[i], "txId") : i \in 1..Len(kept)}
        st0 == [byId |-> [id \in ids |-> kept[LastLine(kept, id)]], deleted |-> {},
                applied |-> 0]
        st == ReduceLoop(corrs, Len(corrs), st0)
        txList == [i \in 1..Len(kept) |->
                     IF i = LastLine(kept, Str(kept[i], "txId"))
                     THEN st.byId[Str(kept[i], "txId")] ELSE kept[i]]
    IN  [transactions |-> IF includeDeleted THEN txList
                          ELSE SelectSeq(txList, LAMBDA tx : Str(tx, "txId") \notin st.deleted),
         deletedTxIds |-> st.deleted,
         appliedCorrections |-> st.applied]

\* an append_jsonl that lets the exception of the index hook through
AppendRaisesWithHook(hookOk) == ~hookOk

\* append_jsonl: whether the call raises, given whether hook_after_append
\* returns (hookOk) or raises; the hook runs under try / except Exception: pass
AppendRaises(hookOk) == FALSE

\* append_jsonl on transactions.jsonl: the line, then the best-effort index hook
AppendTxLine(acc, tx, hookOk) ==
    [acc EXCEPT !.txlog = Append(acc.txlog, tx),
                !.index = IF hookOk THEN UpsertTransaction(acc.index, tx, FALSE)
                          ELSE acc.index,
                !.hookFailed = acc.hookFailed \/ ~hookOk]

\* api_manual_add: the transaction of a manual entry is appended
AddManual(hookOk) ==
    LET acc == AppendTxLine([txlog |-> txlog, index |-> index, hookFailed |-> hookFailed],
                            ManualTx(Len(txlog) + 1), hookOk)
    IN  /\ Len(txlog) < MaxTxs
        /\ txlog' = acc.txlog
        /\ index' = acc.index
        /\ hookFailed' = acc.hookFailed
        /\ appendRaised' = AppendRaises(hookOk)
        /\ UNCHANGED <<qvars, svars, avars, dvars, sourcesIndex, corrlog, importRet, registerRet,
                   mvars, hvars, fvars, wvars>>

\* correction_event / tombstone_event, or an event written by another tool
CorrectionEvent(eventId, txId, type, patch) ==
    [eventId |-> eventId, txId |-> txId, type |-> type, patch |-> patch]

\* append_jsonl on corrections.jsonl: the line, then the best-effort index hook
AppendCorrection(evt, hookOk) ==
    /\ Len(corrlog) < MaxCorrs
    /\ corrlog' = Append(corrlog, evt)
    /\ index' = IF hookOk THEN ApplyCorrectionEvent(index, evt) ELSE index
    /\ hookFailed' = (hookFailed \/ ~hookOk)
    /\ appendRaised' = AppendRaises(hookOk)
    /\ UNCHANGED <<qvars, svars, avars, dvars, sourcesIndex, txlog, importRet, registerRet,
                   mvars, hvars, fvars, wvars>>

\* register_file: the first entry of index["docs"] with the sha256
DocOfSha(docs, sha) ==
    CHOOSE i \in 1..Len(docs) :
        /\ docs[i].sha256 = sha
        /\ \A j \in 1..(i - 1) : docs[j].sha256 # sha

\* register_file: a new entry for the file
NewDoc(docs, file, sourceType) ==
    [docId |-> NewId("doc", Len(docs) + 1), originalPath |-> file.path,
     sha256 |-> file.sha256, sourceType |-> sourceType]

\* register_file that never looks for the sha256 in the index
RegisterFileAlways(docs, file, sourceType) == Append(docs, NewDoc(docs, file, sourceType))

\* register_file: the entry with the sha256 of the file, which takes the source
\* type if it had none, or a new entry
RegisterFile(docs, file, sourceType) ==
    IF \E i \in 1..Len(docs) : docs[i].sha256 = file.sha256
    THEN LET i == DocOfSha(docs, file.sha256)
         IN  IF sourceType # "" /\ docs[i].sourceType = ""
             THEN [docs EXCEPT ![i].sourceType = sourceType]
             ELSE docs
    ELSE Append(docs, NewDoc(docs, file, sourceType))

\* the files that get registered: a path and the sha256 of the bytes
SourceFiles ==
    {[path |-> p, sha256 |-> h] : p \in {"a.csv", "copy.csv", "c.pdf"},
                                   h \in {"sha-a", "sha-b", "sha-c"}}

NoRegisterRet == [path |-> "", sha256 |-> "", docId |-> ""]

\* register_file called on its own (sources register, upload)
RegisterSource(file, sourceType) ==
    LET docs == RegisterFile(sourcesIndex, file, sourceType)
    IN  /\ Len(docs) <= MaxDocs
        /\ sourcesIndex' = docs
        /\ registerRet' = [path |-> file.path, sha256 |-> file.sha256,
                           docId |-> docs[DocOfSha(docs, file.sha256)].docId]
        /\ UNCHANGED <<qvars, svars, avars, dvars, txlog, corrlog, index, hookFailed,
                       appendRaised, importRet, mvars, hvars, fvars, wvars>>

\* _import_csv_from_path: one pass of the loop over row number i
ImportStep(acc, docId, i, row, commit, hookOk) ==
    IF row = "bad" THEN [acc EXCEPT !.errors = acc.errors + 1]
    ELSE IF ~commit THEN acc
    ELSE IF HasSourceHash(acc.index, docId, RowHash(docId, i, row))
         THEN [acc EXCEPT !.skipped = acc.skipped + 1]
    ELSE [AppendTxLine(acc, CsvRowToTx(NewId("tx", Len(acc.txlog) + 1), docId, i, row),
                       hookOk)
            EXCEPT !.imported = acc.imported + 1]

RECURSIVE ImportLoop(_, _, _, _, _, _)
ImportLoop(rows, k, docId, commit, hookOk, acc) ==
    IF k = 0 THEN acc
    ELSE ImportStep(ImportLoop(rows, k - 1, docId, commit, hookOk, acc), docId, k, rows[k],
                    commit, hookOk)

\* _import_csv_from_path
ImportCsv(file, commit, hookOk) ==
    LET docs == RegisterFile(sourcesIndex, file, "bank_csv")
        docId == docs[DocOfSha(docs, file.sha256)].docId
        acc0 == [txlog |-> txlog, index |-> index, hookFailed |-> hookFailed,
                 imported |-> 0, skipped |-> 0, errors |-> 0]
        acc == ImportLoop(file.rows, Len(file.rows), docId, commit, hookOk, acc0)
    IN  /\ Len(acc.txlog) <= MaxTxs
        /\ sourcesIndex' = docs
        /\ txlog' = acc.txlog
        /\ index' = acc.index
        /\ hookFailed' = acc.hookFailed
        /\ appendRaised' = IF acc.imported > 0 THEN AppendRaises(hookOk) ELSE appendRaised
        /\ importRet' = [mode |-> IF commit THEN "commit" ELSE "dry-run", docId |-> docId,
                         imported |-> acc.imported, skipped |-> acc.skipped,
                         errors |-> acc.errors]
        /\ UNCHANGED <<qvars, svars, avars, dvars, corrlog, registerRet, mvars, hvars, fvars, wvars>>

\* rebuild_index: the loop over the lines of transactions.jsonl
RECURSIVE UpsertAll(_, _, _)
UpsertAll(txs, k, ix) ==
    IF k = 0 THEN ix ELSE UpsertTransaction(UpsertAll(txs, k - 1, ix), txs[k], FALSE)

\* rebuild_index: the loop over the lines of corrections.jsonl
RECURSIVE ApplyAll(_, _, _)
ApplyAll(corrs, k, ix) ==
    IF k = 0 THEN ix ELSE ApplyCorrectionEvent(ApplyAll(corrs, k - 1, ix), corrs[k])

\* rebuild_index: both tables are emptied, then every transaction line is
\* upserted and every correction line applied, in file order
Rebuilt ==
    ApplyAll(corrlog, Len(corrlog),
             UpsertAll(txlog, Len(txlog), [tx |-> EmptyDict, corr |-> {}]))

RebuildIndex ==
    /\ index' = Rebuilt
    /\ UNCHANGED <<qvars, svars, avars, dvars, sourcesIndex, txlog, corrlog, hookFailed,
                   appendRaised, importRet, registerRet, mvars, hvars, fvars, wvars>>

\* the csv files that get imported; the row "bad" has a date that does not parse
CsvFiles ==
    {[path |-> "a.csv", sha256 |-> "sha-a", rows |-> <<"bad", "2026-01-30,coffee,-4.50">>],
     [path |-> "b.csv", sha256 |-> "sha-b", rows |-> <<"2026-02-01,rent,-900">>]}

\* the correction events that get appended
CategoryPatch == D([category |-> D([id |-> S("food")])])

\* a patch of api_manual_edit that carries the key txId
TxIdPatch == D([txId |-> S(NewId("tx", 0))])

CorrectionPool ==
    {CorrectionEvent(e, NewId("tx", n), "patch", CategoryPatch) :
        e \in {"", "evt"}, n \in 1..MaxTxs}
      \cup {CorrectionEvent("evt", NewId("tx", n), "tombstone", S("")) : n \in 1..MaxTxs}
      \cup {CorrectionEvent("evt", NewId("tx", 1), "patch", TxIdPatch)}

\* patches of api_manual_edit: a second value for category.id, a sibling key
\* of category.id, a scalar over the dictionary category, a dictionary over
\* the scalar merchant, a list over the list tags
TravelPatch == D([category |-> D([id |-> S("travel")])])

ReasonPatch == D([category |-> D([reason |-> S("user")])])

FlatCategoryPatch == D([category |-> S("food")])

MerchantDictPatch == D([merchant |-> D([name |-> S("bakery")])])

TagsPatch == D([tags |-> L(<<"x", "y">>)])

\* a line of corrections.jsonl with its `at` timestamp
Timed(evt, at) == evt @@ [at |-> at]

\* the lines that get appended to corrections.jsonl while the reducer is
\* watched: the `at` and eventId of the events run against the order in which
\* the events are listed; "annotate" is a type the reducer does not know and
\* tx 0 a transaction that does not exist
ReducePool ==
    {Timed(CorrectionEvent("evt9", NewId("tx", 1), "patch", CategoryPatch), 9),
     Timed(CorrectionEvent("evt8", NewId("tx", 1), "patch", TravelPatch), 8),
     Timed(CorrectionEvent("evt7", NewId("tx", 1), "patch", ReasonPatch), 7),
     Timed(CorrectionEvent("evt6", NewId("tx", 1), "patch", FlatCategoryPatch), 6),
     Timed(CorrectionEvent("evt5", NewId("tx", 1), "patch", MerchantDictPatch), 5),
     Timed(CorrectionEvent("evt4", NewId("tx", 1), "patch", TagsPatch), 4),
     Timed(CorrectionEvent("evt3", NewId("tx", 1), "patch", TxIdPatch), 3),
     Timed(CorrectionEvent("evt2", NewId("tx", 1), "tombstone", S("")), 2),
     Timed(CorrectionEvent("evt1", NewId("tx", 1), "annotate", TravelPatch), 1),
     Timed(CorrectionEvent("evt0", NewId("tx", 1), "", TagsPatch), 0),
     Timed(CorrectionEvent("evt10", NewId("tx", 0), "patch", TravelPatch), 10),
     Timed(CorrectionEvent("evt11", NewId("tx", 2), "patch", CategoryPatch), 11),
     Timed(CorrectionEvent("evt12", NewId("tx", 2), "delete", S("")), 12)}

NoImportRet == [mode |-> "none", docId |-> "", imported |-> 0, skipped |-> 0, errors |-> 0]

\* the ledger files and the index before any append
InitLedger ==
    /\ sourcesIndex = <<>>
    /\ txlog = <<>>
    /\ corrlog = <<>>
    /\ index = [tx |-> EmptyDict, corr |-> {}]
    /\ hookFailed = FALSE
    /\ appendRaised = FALSE
    /\ importRet = NoImportRet
    /\ registerRet = NoRegisterRet

\* ------------------------------------------------------------------ the worker
NoWorkerRet ==
    [maxTasks |-> 0, processed |-> 0, done |-> 0, failed |-> 0, retried |-> 0,
     claimed |-> 0, idle |-> FALSE]

InitWorker == workerRet = NoWorkerRet

\* ------------------------------------------------------------------ json files
\* the objects written: the sequence of the items of a document
RECURSIVE SeqsUpTo(_, _)
SeqsUpTo(items, n) ==
    IF n = 0 THEN {<<>>}
    ELSE SeqsUpTo(items, n - 1)
         \cup {Append(d, x) : d \in SeqsUpTo(items, n - 1), x \in items}

JsonObjects(maxItems) == SeqsUpTo({"a", "b"}, maxItems)

\* json.dump(obj, f) followed by f.write("\n"): the text of the document
JsonText(obj) == <<"{">> \o obj \o <<"}", "\n">>

\* json.load: whether the text is a whole document
Loads(text, maxItems) == \E obj \in JsonObjects(maxItems) : text = JsonText(obj)

NoWrite == [open |-> FALSE, obj |-> <<>>, old |-> <<>>, crashed |-> FALSE]

\* p.open("w"): the document is truncated
OpenTruncates(text) == <<>>

\* write_json: p.open("w")
WriteJsonOpen(obj) ==
    /\ ~fileWrite.open
    /\ fileWrite' = [open |-> TRUE, obj |-> obj, old |-> fileText, crashed |-> FALSE]
    /\ fileText' = OpenTruncates(fileText)
    /\ UNCHANGED <<qvars, svars, avars, dvars, lvars, mvars, hvars, wvars>>

\* write_json: the buffer of the file object is flushed as far as n more
\* pieces of the text, during json.dump or f.write
WriteJsonFlush(n) ==
    /\ fileWrite.open
    /\ Len(fileText) + n <= Len(JsonText(fileWrite.obj))
    /\ fileText' = SubSeq(JsonText(fileWrite.obj), 1, Len(fileText) + n)
    /\ UNCHANGED <<qvars, svars, avars, dvars, lvars, mvars, hvars, fileWrite, wvars>>

\* write_json: the with block ends, the rest of the text is flushed and the
\* file closed
WriteJsonClose ==
    /\ fileWrite.open
    /\ fileText' = JsonText(fileWrite.obj)
    /\ fileWrite' = [fileWrite EXCEPT !.open = FALSE]
    /\ UNCHANGED <<qvars, svars, avars, dvars, lvars, mvars, hvars, wvars>>

\* the process stops inside write_json: the file keeps what reached it
CrashInWrite ==
    /\ fileWrite.open
    /\ fileWrite' = [fileWrite EXCEPT !.open = FALSE, !.crashed = TRUE]
    /\ UNCHANGED <<qvars, svars, avars, dvars, lvars, mvars, hvars, fileText, wvars>>

InitFiles ==
    /\ fileText = JsonText(<<>>)
    /\ fileWrite = NoWrite

\* ------------------------------------------------------------ schema migrations
APP_SCHEMA_VERSION == 2

\* _default_state
DefaultSchemaState == [version |-> 0, history |-> <<>>]

NoMigrateRet == [fromVersion |-> 0, toVersion |-> 0, applied |-> <<>>, raised |-> FALSE]

\* target_version: none given ({}), or the one given
TargetChoices == {{}, {-1}, {0}, {1}, {2}, {3}}

\* the step whose init_data_layout or rebuild_index raises (0: none does)
FailChoices == {0, 1, 2}

\* target = target_version if given else APP_SCHEMA_VERSION, at most
\* APP_SCHEMA_VERSION
Target(targetVersion) ==
    IF targetVersion = {} THEN APP_SCHEMA_VERSION
    ELSE Min(CHOOSE n \in targetVersion : TRUE, APP_SCHEMA_VERSION)

\* a loop that writes schema_state.json only once the target is reached
RECURSIVE MigrateLoopSavesLast(_, _, _, _)
MigrateLoopSavesLast(acc, cur, target, failAt) ==
    IF cur >= target THEN acc
    ELSE IF cur + 1 = failAt THEN [acc EXCEPT !.raised = TRUE]
    ELSE LET st == [version |-> cur + 1, history |-> Append(acc.st.history, cur + 1)]
         IN  MigrateLoopSavesLast(
                 [st |-> st,
                  saved |-> IF cur + 1 = target THEN st ELSE acc.saved,
                  applied |-> Append(acc.applied, cur + 1),
                  raised |-> FALSE,
                  index |-> IF cur + 1 = 2 THEN Rebuilt ELSE acc.index],
                 cur + 1, target, failAt)

\* migrate_to_latest: the while loop.  acc carries the state in memory (st),
\* the state file (saved), the steps applied, whether a step raised, and the
\* index; step 2 rebuilds the index; a step that raises does so before
\* _append_history, and the loop writes the file at the end of every pass
RECURSIVE MigrateLoop(_, _, _, _)
MigrateLoop(acc, cur, target, failAt) ==
    IF cur >= target THEN acc
    ELSE IF cur + 1 = failAt THEN [acc EXCEPT !.raised = TRUE]
    ELSE LET st == [version |-> cur + 1, history |-> Append(acc.st.history, cur + 1)]
         IN  MigrateLoop(
                 [st |-> st,
                  saved |-> st,
                  applied |-> Append(acc.applied, cur + 1),
                  raised |-> FALSE,
                  index |-> IF cur + 1 = 2 THEN Rebuilt ELSE acc.index],
                 cur + 1, target, failAt)

\* migrate_to_latest
MigrateToLatest(targetVersion, failAt) ==
    LET cur == schemaState.version
        acc == MigrateLoop([st |-> schemaState, saved |-> schemaState, applied |-> <<>>,
                            raised |-> FALSE, index |-> index],
                           cur, Target(targetVersion), failAt)
    IN  /\ IF Target(targetVersion) < 0
           THEN /\ migrateRet' = [fromVersion |-> cur, toVersion |-> cur, applied |-> <<>>,
                                  raised |-> TRUE]
                /\ UNCHANGED <<schemaState, index>>
           ELSE /\ schemaState' = acc.saved
                /\ index' = acc.index
                /\ migrateRet' = [fromVersion |-> cur,
                                  toVersion |-> cur + Len(acc.applied),
                                  applied |-> acc.applied, raised |-> acc.raised]
        /\ UNCHANGED <<qvars, svars, avars, dvars, sourcesIndex, txlog, corrlog, hookFailed,
                       appendRaised, importRet, registerRet, hvars, fvars, wvars>>

InitMigrations ==
    /\ schemaState = DefaultSchemaState
    /\ migrateRet = NoMigrateRet

\* ------------------------------------------------------------ the api middleware
\* a request path is the sequence of its segments: /api/backup/create is
\* <<"api", "backup", "create">>
IsApi(path) == Len(path) >= 2 /\ path[1] = "api"

\* load_api_key_store_from_env: the metadata of one key
KeyMeta(id, scopes, enabled, expiresAt, workspaces) ==
    [id |-> id, scopes |-> scopes, enabled |-> enabled, expiresAt |-> expiresAt,
     workspaces |-> workspaces]

\* no key configured
EmptyStore == <<>>

\* LEDGERFLOW_API_KEYS with scoped keys, by token; the key of role admin gets
\* the scopes of _ROLE_SCOPES["admin"]
ScopedStore ==
    [token \in {"reader-key", "writer-key", "auto-key", "ops-key", "admin-key", "off-key",
                 "old-key", "team-key"} |->
        CASE token = "reader-key" -> KeyMeta("reader", {"read"}, TRUE, NoVal, {})
          [] token = "writer-key" -> KeyMeta("writer", {"write"}, TRUE, NoVal, {})
          [] token = "auto-key" ->
                 KeyMeta("auto", {"read", "write", "automation"}, TRUE, NoVal, {})
          [] token = "ops-key" -> KeyMeta("ops", {"read", "ops"}, TRUE, NoVal, {})
          [] token = "admin-key" -> KeyMeta("admin", {"admin"}, TRUE, NoVal, {})
          [] token = "off-key" -> KeyMeta("off", {"read", "write"}, FALSE, NoVal, {})
          [] token = "old-key" -> KeyMeta("old", {"read", "write"}, TRUE, 1, {})
          [] token = "team-key" -> KeyMeta("team", {"read", "write"}, TRUE, NoVal, {"team-a"})]

\* required_scopes_for_request: none is set where the function returns None
RequiredScopes(method, path) ==
    IF ~IsApi(path) \/ path = <<"api", "health">> \/ method = "OPTIONS"
    THEN [none |-> TRUE, scopes |-> <<>>]
    ELSE [none |-> FALSE,
          scopes |-> <<IF method \in {"GET", "HEAD"} THEN "read" ELSE "write">>
                        \o (IF Len(path) >= 3 /\ path[2] = "automation"
                            THEN <<"automation">> ELSE <<>>)
                        \o (IF path = <<"api", "ops", "metrics">> THEN <<"ops">> ELSE <<>>)
                        \o (IF path = <<"api", "auth", "keys">>
                               \/ (Len(path) >= 3 /\ path[2] = "backup")
                            THEN <<"admin">> ELSE <<>>)]

\* key_has_scope / scope_denial_reason: datetime.now(UTC) >= exp
Expired(meta, t) == meta.expiresAt # NoVal /\ t >= meta.expiresAt

\* key_has_scope
KeyHasScope(meta, required, t) ==
    IF ~meta.enabled THEN FALSE
    ELSE IF Expired(meta, t) THEN FALSE
    ELSE IF "admin" \in meta.scopes THEN TRUE
    ELSE IF required = "read" /\ "write" \in meta.scopes THEN TRUE
    ELSE required \in meta.scopes

\* scope_denial_reason
ScopeDenialReason(meta, required, t) ==
    IF ~meta.enabled THEN "api_key_disabled"
    ELSE IF Expired(meta, t) THEN "api_key_expired"
    ELSE IF KeyHasScope(meta, required, t) THEN "none"
    ELSE "insufficient_scope"

\* key_allows_workspace
KeyAllowsWorkspace(meta, workspaceId) ==
    meta.workspaces = {} \/ workspaceId \in meta.workspaces

\* the middleware's loop over the required scopes: the first denial reason
RECURSIVE FirstDenial(_, _, _, _)
FirstDenial(meta, scopes, k, t) ==
    IF k > Len(scopes) THEN "none"
    ELSE IF ScopeDenialReason(meta, scopes[k], t) # "none"
         THEN ScopeDenialReason(meta, scopes[k], t)
    ELSE FirstDenial(meta, scopes, k + 1, t)

\* auth_and_audit_middleware up to the response: the status of the denial, or
\* status 0 and no denial when the request goes on to call_next
Gate(req, t) ==
    LET required == RequiredScopes(req.method, req.path)
        requiresAuth == keyStore # EmptyStore /\ ~required.none
        allowed == [status |-> 0, denied |-> FALSE, reason |-> "none", keyId |-> "none"]
    IN  IF requiresAuth
        THEN IF req.key \notin DOMAIN keyStore
             THEN [status |-> 401, denied |-> TRUE, reason |-> "missing_or_invalid_api_key",
                   keyId |-> "none"]
             ELSE LET meta == keyStore[req.key]
                      why == FirstDenial(meta, required.scopes, 1, t)
                  IN  IF why \in {"api_key_disabled", "api_key_expired"}
                      THEN [status |-> 401, denied |-> TRUE, reason |-> why,
                            keyId |-> "none"]
                      ELSE IF why = "insufficient_scope"
                      THEN [status |-> 403, denied |-> TRUE, reason |-> why,
                            keyId |-> "none"]
                      ELSE IF ~KeyAllowsWorkspace(meta, req.workspace)
                      THEN [status |-> 403, denied |-> TRUE,
                            reason |-> "workspace_not_allowed", keyId |-> "none"]
                      ELSE [allowed EXCEPT !.keyId = meta.id]
        ELSE IF IsApi(req.path) /\ ~required.none /\ ~req.local
        THEN [status |-> 401, denied |-> TRUE,
              reason |-> "non_local_client_without_api_key", keyId |-> "none"]
        ELSE allowed

\* the methods whose requests on /api/ are audited
AuditedMethods == {"POST", "PUT", "PATCH", "DELETE"}

\* the audit record of a request
AuditEvent(req, status, gate) ==
    [method |-> req.method, path |-> req.path, status |-> status,
     authKeyId |-> gate.keyId, authDenied |-> gate.denied, authDenyReason |-> gate.reason]

\* the status of the response call_next returns: the handler returned, or
\* raised an HTTPException that the application turned into a response
HandlerStatus(handler) == IF handler = "ok" THEN 200 ELSE 400

\* a middleware that audits in a finally block, whatever call_next does
CallNextRaisesNever(handler) == FALSE

\* call_next re-raises an exception of the handler that the application has
\* no handler for; the lines of the middleware after the call do not run
CallNextRaises(handler) == handler = "raises"

NoResponse == [status |-> 0, served |-> FALSE, raised |-> FALSE]

\* auth_and_audit_middleware.  handler says how the route handler ends ("ok",
\* "http_error": an HTTPException, "raises": any other exception), auditOk
\* whether append_jsonl on the audit log returns
Request(req, handler, auditOk, maxAudit) ==
    LET gate == Gate(req, now)
        status == IF gate.denied THEN gate.status ELSE HandlerStatus(handler)
        raises == ~gate.denied /\ CallNextRaises(handler)
        audited == ~raises /\ IsApi(req.path) /\ req.method \in AuditedMethods
    IN  /\ response' = [status |-> IF raises THEN 500 ELSE status, served |-> ~gate.denied,
                        raised |-> raises]
        /\ auditLog' = IF audited /\ auditOk
                       THEN Append(auditLog, AuditEvent(req, status, gate))
                       ELSE auditLog
        /\ Len(auditLog') <= maxAudit
        /\ UNCHANGED <<qvars, svars, avars, dvars, lvars, mvars, keyStore, fvars, wvars>>

InitApi ==
    /\ keyStore = EmptyStore
    /\ auditLog = <<>>
    /\ response = NoResponse

InitMeta == InitMigrations /\ InitApi /\ InitFiles /\ InitWorker

\* the files of the other components as init_data_layout leaves them
InitRest == InitSched /\ InitAlerts /\ InitDelivery /\ InitLedger /\ InitMeta

\* the queue file and the workers before any call
InitQueueVars ==
    /\ now = 0
    /\ queue = <<>>
    /\ nextId = 1
    /\ pc = [w \in Workers |-> "idle"]
    /\ held = [w \in Workers |-> NoTask]
    /\ snap = [w \in Workers |-> <<>>]
    /\ ret = [w |-> "none", status |-> "none"]
    /\ grant = [i \in 1..(Max(MaxTasks, MaxDueTasks) + 1) |-> NoGrant]
    /\ lostUpdate = FALSE
    /\ hist = [i \in 1..(Max(MaxTasks, MaxDueTasks) + 1) |-> NoHist]

InitQueue == InitQueueVars /\ InitRest

Tick(maxTime) ==
    /\ now < maxTime
    /\ now' = now + 1
    /\ UNCHANGED <<queue, nextId, pc, held, snap, ret, grant, lostUpdate, hist, svars, avars,
                   dvars, lvars, mvars, hvars, fvars, wvars>>

\* enqueue_task
EnqueueTyped(maxTasks, taskType, runAt, maxRetries) ==
    /\ nextId <= maxTasks
    /\ queue' = Append(queue, NewTask(nextId, taskType, runAt, maxRetries, "manual", now))
    /\ nextId' = nextId + 1
    /\ UNCHANGED <<now, pc, held, snap, ret, grant, lostUpdate, hist, svars, avars, dvars, lvars,
                   mvars, hvars, fvars, wvars>>

\* enqueue_task for a build task
EnqueueTask(maxTasks, runAt, maxRetries) == EnqueueTyped(maxTasks, "build", runAt, maxRetries)

\* the effects of a _claim_next_task that read `doc` and writes at the current time
ClaimFrom(w, doc, lockTtlSeconds) ==
    LET ttl == LockTtl(lockTtlSeconds)
    IN  IF Candidates(doc, now, ttl) = {}
        THEN /\ pc' = [pc EXCEPT ![w] = "idle"]
             /\ UNCHANGED <<queue, held, grant, lostUpdate, lvars>>
        ELSE LET newDoc == ClaimDoc(doc, now, w, ttl)
                 id == doc[Picked(doc, now, ttl)].taskId
             IN  /\ queue' = newDoc
                 /\ held' = [held EXCEPT ![w] = newDoc[FirstRow(newDoc, id)]]
                 /\ pc' = [pc EXCEPT ![w] = "running"]
                 /\ grant' = [grant EXCEPT ![id] = [w |-> w, at |-> now, ttl |-> ttl]]
                 /\ lostUpdate' = (lostUpdate \/ doc # queue)

\* run_next_task, first half: _claim_next_task as one uninterrupted call
ClaimNextTask(w, lockTtlSeconds) ==
    /\ pc[w] = "idle"
    /\ ClaimFrom(w, queue, lockTtlSeconds)
    /\ ret' = [w |-> w, status |-> IF Candidates(queue, now, LockTtl(lockTtlSeconds)) = {}
                                   THEN "idle" ELSE "none"]
    /\ UNCHANGED <<now, nextId, snap, hist, svars, avars, dvars, lvars, mvars, hvars, fvars, wvars>>

\* _claim_next_task up to and including doc = _queue_doc(layout)
BeginClaim(w) ==
    /\ pc[w] = "idle"
    /\ pc' = [pc EXCEPT ![w] = "claiming"]
    /\ snap' = [snap EXCEPT ![w] = queue]
    /\ UNCHANGED <<now, queue, nextId, held, ret, grant, lostUpdate, hist, svars, avars, dvars,
                   lvars, mvars, hvars, fvars, wvars>>

\* _claim_next_task from the candidate scan to _write_queue
EndClaim(w, lockTtlSeconds) ==
    /\ pc[w] = "claiming"
    /\ ClaimFrom(w, snap[w], lockTtlSeconds)
    /\ snap' = [snap EXCEPT ![w] = <<>>]
    /\ UNCHANGED <<now, nextId, ret, hist, svars, avars, dvars, lvars, mvars, hvars, fvars, wvars>>

\* a dead-letter view that shows the tasks of a status no task ever has
DeadLettersOfNone(doc) == SelectSeq(doc, LAMBDA x : x.status = "dead")

\* list_dead_letters: the dead-letter view, the projection of the failed tasks
\* of the queue file
DeadLetters(doc) == SelectSeq(doc, LAMBDA x : x.status = "failed")

\* the task types _execute_task has a branch for
TaskTypes == {"build", "alerts.run", "ai.analyze", "report.daily", "report.monthly"}

\* an _execute_task that runs whatever the task type is
ExecuteTaskAnyType(task, ok) == ok \/ task.taskType \notin TaskTypes

\* _execute_task: TRUE if it returns a result, FALSE if it raises; `ok` says
\* whether the function called for the task type returns
ExecuteTask(task, ok) == task.taskType \in TaskTypes /\ ok

\* run_next_task: the status _finish_task is called with after the executor
\* returned (ok) or raised
FinishStatus(task, ok) ==
    IF ExecuteTask(task, ok) THEN "done"
    ELSE IF RetryAllowed(task) THEN "queued" ELSE "failed"

\* run_next_task, second half: the executor ends, then _finish_task
Finish(w, ok) ==
    /\ pc[w] = "running"
    /\ LET task == held[w]
           status == FinishStatus(task, ok)
           delay == IF status = "queued" THEN RetryDelay(task) ELSE 0
       IN  /\ queue' = FinishDoc(queue, task.taskId, status, ExecuteTask(task, ok),
                                 ~ExecuteTask(task, ok), delay, now)
           /\ grant' = [grant EXCEPT ![task.taskId] = NoGrant]
    /\ pc' = [pc EXCEPT ![w] = "idle"]
    /\ held' = [held EXCEPT ![w] = NoTask]
    /\ UNCHANGED <<now, nextId, snap, lostUpdate, svars, avars, dvars, lvars, mvars, hvars, fvars, wvars>>

\* run_next_task's result, recorded where calls do not overlap
FinishRun(w, ok) ==
    /\ Finish(w, ok)
    /\ ret' = [w |-> w, status |-> IF FinishStatus(held[w], ok) = "queued"
                                   THEN "retry_scheduled" ELSE FinishStatus(held[w], ok)]
    /\ hist' = [hist EXCEPT ![held[w].taskId] =
                   Counted(hist[held[w].taskId], FinishStatus(held[w], ok),
                           RetryDelay(held[w]))]

\* the status run_next_task returns for the status it finished the task with
Returned(status) == IF status = "queued" THEN "retry_scheduled" ELSE status

\* run_next_task as one call that no other call overlaps: _claim_next_task, the
\* executor (it returns, or raises), _finish_task
RunNextTask(w, lockTtlSeconds, ok) ==
    LET ttl == LockTtl(lockTtlSeconds)
    IN  /\ \A v \in Workers : pc[v] = "idle"
        /\ IF Candidates(queue, now, ttl) = {}
           THEN /\ ret' = [w |-> w, status |-> "idle"]
                /\ UNCHANGED <<queue, hist>>
           ELSE LET claimed == ClaimDoc(queue, now, w, ttl)
                    id == queue[Picked(queue, now, ttl)].taskId
                    task == claimed[FirstRow(claimed, id)]
                    status == FinishStatus(task, ok)
                    delay == IF status = "queued" THEN RetryDelay(task) ELSE 0
                IN  /\ queue' = FinishDoc(claimed, id, status, ExecuteTask(task, ok),
                                          ~ExecuteTask(task, ok), delay, now)
                    /\ ret' = [w |-> w, status |-> Returned(status)]
                    /\ hist' = [hist EXCEPT ![id] = Counted(hist[id], status, delay)]
        /\ UNCHANGED <<now, nextId, pc, held, snap, grant, lostUpdate, svars, avars, dvars,
                       lvars, mvars, hvars, fvars, wvars>>

FinishRunConc(w, ok) ==
    /\ Finish(w, ok)
    /\ UNCHANGED <<ret, hist>>

\* run_worker: range(max(1, int(max_tasks)))
Iterations(maxTasks) == Max(1, maxTasks)

\* run_worker: one pass of the loop body, a run_next_task call with the
\* default lock_ttl_seconds at time acc.t; the executor raises for the tasks of
\* failIds; time.sleep(poll_seconds) follows every task processed
WorkerPass(acc, w, failIds, poll) ==
    IF acc.idle THEN acc
    ELSE IF Candidates(acc.doc, acc.t, LockTtl(300)) = {} THEN [acc EXCEPT !.idle = TRUE]
    ELSE LET claimed == ClaimDoc(acc.doc, acc.t, w, LockTtl(300))
             id == acc.doc[Picked(acc.doc, acc.t, LockTtl(300))].taskId
             task == claimed[FirstRow(claimed, id)]
             ok == id \notin failIds
             status == FinishStatus(task, ok)
             delay == IF status = "queued" THEN RetryDelay(task) ELSE 0
         IN  [acc EXCEPT
                !.doc = FinishDoc(claimed, id, status, ExecuteTask(task, ok),
                                  ~ExecuteTask(task, ok), delay, acc.t),
                !.hist = [acc.hist EXCEPT ![id] = Counted(acc.hist[id], status, delay)],
                !.last = Returned(status),
                !.claimed = acc.claimed + 1,
                !.processed = acc.processed + 1,
                !.done = acc.done + (IF status = "done" THEN 1 ELSE 0),
                !.failed = acc.failed + (IF status = "failed" THEN 1 ELSE 0),
                !.retried = acc.retried + (IF status = "queued" THEN 1 ELSE 0),
                !.t = acc.t + poll]

\* run_worker: n passes of the for loop, starting from acc
RECURSIVE WorkerLoop(_, _, _, _, _)
WorkerLoop(acc, n, w, failIds, poll) ==
    IF n = 0 THEN acc
    ELSE LET next == WorkerPass(acc, w, failIds, poll)
         IN  WorkerLoop(next, n - 1, w, failIds, poll)

\* run_worker, with no other call overlapping it
RunWorker(w, maxTasks, failIds, poll, maxTime) ==
    LET acc0 == [doc |-> queue, t |-> now, hist |-> hist, idle |-> FALSE, last |-> "none",
                 claimed |-> 0, processed |-> 0, done |-> 0, failed |-> 0, retried |-> 0]
        acc == WorkerLoop(acc0, Iterations(maxTasks), w, failIds, poll)
    IN  /\ \A v \in Workers : pc[v] = "idle"
        /\ acc.t <= maxTime
        /\ queue' = acc.doc
        /\ now' = acc.t
        /\ hist' = acc.hist
        /\ ret' = [w |-> w, status |-> IF acc.idle THEN "idle" ELSE acc.last]
        /\ workerRet' = [maxTasks |-> maxTasks, processed |-> acc.processed,
                         done |-> acc.done, failed |-> acc.failed, retried |-> acc.retried,
                         claimed |-> acc.claimed, idle |-> acc.idle]
        /\ UNCHANGED <<nextId, pc, held, snap, grant, lostUpdate, svars, avars, dvars, lvars,
                       mvars, hvars, fvars>>

RunAtChoices == {NoVal, 0, 2}

MaxRetriesChoices == {-1, 0, 1}

LockTtlChoices == {0, 1}

NextQueue ==
    \/ Tick(MaxTime)
    \/ \E r \in RunAtChoices, m \in MaxRetriesChoices : EnqueueTask(MaxTasks, r, m)
    \/ \E w \in Workers, s \in LockTtlChoices : ClaimNextTask(w, s)
    \/ \E w \in Workers, ok \in BOOLEAN : FinishRun(w, ok)

SpecQueue == InitQueue /\ [][NextQueue]_vars

RetryChoices == {0, 1, 2}

\* run_next_task calls that follow one another
NextRetry ==
    \/ Tick(MaxTime)
    \/ \E m \in RetryChoices : EnqueueTask(MaxTasks, NoVal, m)
    \/ \E s \in LockTtlChoices, ok \in BOOLEAN : RunNextTask("w1", s, ok)

SpecRetry == InitQueue /\ [][NextRetry]_vars

\* tasks of a type _execute_task knows and of one it does not
NextExec ==
    \/ Tick(MaxTime)
    \/ \E taskType \in {"build", "unknown.task"} : EnqueueTyped(MaxTasks, taskType, NoVal, 1)
    \/ \E s \in LockTtlChoices, ok \in BOOLEAN : RunNextTask("w1", s, ok)

SpecExec == InitQueue /\ [][NextExec]_vars

\* the claims of the queue that no _finish_task followed
Crashes(doc) ==
    LET RECURSIVE Sum(_)
        Sum(k) == IF k = 0 THEN 0
                  ELSE Sum(k - 1) + doc[k].attempts - hist[doc[k].taskId].execs
    IN  Sum(Len(doc))

\* a worker process that dies after _claim_next_task returned: the row stays
\* running with its lockedAt, and _finish_task is never called
ClaimAndCrash(w, lockTtlSeconds) ==
    LET ttl == LockTtl(lockTtlSeconds)
    IN  /\ \A v \in Workers : pc[v] = "idle"
        /\ Crashes(queue) < MaxCrashes
        /\ Candidates(queue, now, ttl) # {}
        /\ queue' = ClaimDoc(queue, now, w, ttl)
        /\ UNCHANGED <<now, nextId, pc, held, snap, ret, grant, lostUpdate, hist, svars, avars,
                       dvars, lvars, mvars, hvars, fvars, wvars>>

\* the time the last task needs at most: one retry delay of 1 s, and for each
\* crash a lease of 1 s that has to be exceeded
ReclaimHorizon == 1 + 2 * MaxCrashes

\* a worker that keeps calling run_next_task: the clock moves on when the
\* call finds no candidate
TickIdle ==
    /\ Candidates(queue, now, 1) = {}
    /\ Tick(ReclaimHorizon)

RunNextTaskLive == \E ok \in BOOLEAN : RunNextTask("w1", 1, ok)

NextReclaim ==
    \/ TickIdle
    \/ now = 0 /\ EnqueueTask(MaxTasks, NoVal, 1)
    \/ ClaimAndCrash("w2", 1)
    \/ RunNextTaskLive

SpecReclaim ==
    InitQueue /\ [][NextReclaim]_vars /\ WF_vars(TickIdle) /\ WF_vars(RunNextTaskLive)

\* one task with maxRetries = 2 and two workers whose run_next_task calls may
\* overlap once a lease has expired
NextBackoff ==
    \/ Tick(MaxTime)
    \/ EnqueueTask(1, NoVal, 2)
    \/ \E w \in Workers, s \in LockTtlChoices : ClaimNextTask(w, s)
    \/ \E w \in Workers, ok \in BOOLEAN : FinishRun(w, ok)

SpecBackoff == InitQueue /\ [][NextBackoff]_vars

\* Overlapping claim calls start from a queue that enqueue_task calls at time 0
\* have filled: one task, or two.
ConcQueues ==
    {<<NewTask(1, "build", NoVal, m, "manual", 0)>> : m \in {0, 1}}
        \cup {<<NewTask(1, "build", NoVal, m, "manual", 0),
                 NewTask(2, "build", NoVal, 0, "manual", 0)>> :
                 m \in {0, 1}}

InitQueueConc ==
    /\ now = 0
    /\ queue \in ConcQueues
    /\ nextId = Len(queue) + 1
    /\ pc = [w \in Workers |-> "idle"]
    /\ held = [w \in Workers |-> NoTask]
    /\ snap = [w \in Workers |-> <<>>]
    /\ ret = [w |-> "none", status |-> "none"]
    /\ grant = [i \in 1..(Max(MaxTasks, MaxDueTasks) + 1) |-> NoGrant]
    /\ lostUpdate = FALSE
    /\ hist = [i \in 1..(Max(MaxTasks, MaxDueTasks) + 1) |-> NoHist]
    /\ InitRest

NextQueueConc ==
    \/ Tick(ConcMaxTime)
    \/ \E w \in Workers : BeginClaim(w)
    \/ \E w \in Workers, s \in LockTtlChoices : EndClaim(w, s)
    \/ \E w \in Workers, ok \in BOOLEAN : FinishRunConc(w, ok)

SpecQueueConc == InitQueueConc /\ [][NextQueueConc]_vars

\* the run_worker calls made: max_tasks, the tasks whose executor raises,
\* poll_seconds
WorkerCalls ==
    {<<n, failIds, poll>> : n \in {0, 1, MaxTasks}, failIds \in {{}, {1}, 1..MaxTasks},
                            poll \in {0, 1}}

\* run_worker calls on a queue of tasks that run or fail, with and without a retry
NextWorker ==
    \/ Tick(MaxTime)
    \/ \E m \in {0, 1} : EnqueueTask(MaxTasks, NoVal, m)
    \/ \E c \in WorkerCalls : RunWorker("w1", c[1], c[2], c[3], MaxTime)

SpecWorker == InitQueue /\ [][NextWorker]_vars

\* enqueue_task calls between the read and the write of overlapping claim calls
NextQueueLoss ==
    \/ EnqueueTask(MaxTasks, NoVal, 0)
    \/ \E w \in Workers : BeginClaim(w)
    \/ \E w \in Workers : EndClaim(w, 1)
    \/ \E w \in Workers, ok \in BOOLEAN : FinishRunConc(w, ok)

SpecQueueLoss == InitQueue /\ [][NextQueueLoss]_vars

NextSched ==
    \/ \E doc \in JobsDocs : WriteJobs(doc)
    \/ \E at \in AtChoices : EnqueueDueJobs(at)

SpecSched == InitQueue /\ [][NextSched]_vars

\* jobs payloads of every kind, and the scheduler on what was stored
NextJobs ==
    \/ \E doc \in JobsPayloads : WriteJobs(doc)
    \/ \E at \in AtChoices : EnqueueDueJobs(at)

SpecJobs == InitQueue /\ [][NextJobs]_vars

InitAlertsRun ==
    /\ InitQueueVars
    /\ InitSched
    /\ alertRules \in AlertRulesDocs
    /\ InitAlertFiles
    /\ InitDelivery
    /\ InitLedger
    /\ InitMeta

NextAlerts ==
    \/ \E tx \in AlertTxPool : AddTx(tx)
    \/ \E at \in AlertDates, commit \in BOOLEAN : RunAlerts(at, commit)

SpecAlerts == InitAlertsRun /\ [][NextAlerts]_vars

\* runs of the alerts engine, some of them cut short by a crash
NextAlertsCrash ==
    \/ \E tx \in AlertTxPool : AddTx(tx)
    \/ \E at \in AlertDates, commit \in BOOLEAN : RunAlerts(at, commit)
    \/ \E at \in AlertDates, k \in 1..2 : RunAlertsCrash(at, k)

SpecAlertsCrash == InitAlertsRun /\ [][NextAlertsCrash]_vars

\* the rules and a ledger that make run_alerts append events
InitDeliveryRun ==
    /\ InitQueueVars
    /\ InitSched
    /\ alertRules = <<Rule("food_month", "category_budget", "month", "food", 100),
                      Rule("cash_day", "cash_heavy_day", "", "", NoVal)>>
    /\ ledger = AlertTxPool
    /\ alertState = [lastRun |-> NoVal, rules |-> [r \in AlertRuleIds |-> NoKey]]
    /\ events = <<>>
    /\ alertRet = NoAlertRet
    /\ channels \in DeliveryRulesDocs
    /\ InitDeliveryFiles
    /\ InitLedger
    /\ InitMeta

NextDelivery ==
    \/ \E at \in {0, AlertMaxDay} : RunAlerts(at, TRUE) /\ Len(events') <= DeliveryMaxEvents
    \/ \E c \in DeliverCalls : Deliver(c[1], c[2], c[3], c[4])
    \/ \E k \in 1..2, n \in 1..DeliveryMaxEvents : DeliverCrash(-1, {}, NoVal, k, n)

SpecDelivery == InitDeliveryRun /\ [][NextDelivery]_vars

NextLedger ==
    \/ \E hookOk \in BOOLEAN : AddManual(hookOk)
    \/ \E evt \in CorrectionPool, hookOk \in BOOLEAN : AppendCorrection(evt, hookOk)
    \/ \E file \in CsvFiles, commit \in BOOLEAN, hookOk \in BOOLEAN :
          ImportCsv(file, commit, hookOk)
    \/ RebuildIndex

SpecLedger == InitQueue /\ [][NextLedger]_vars

\* the correction events appended while the index hook may raise
AppendPool ==
    {CorrectionEvent("evt", NewId("tx", 1), "patch", CategoryPatch),
     CorrectionEvent("evt", NewId("tx", 1), "tombstone", S(""))}

\* appends to the two ledger files, each with an index hook that returns or
\* raises
NextAppend ==
    \/ \E hookOk \in BOOLEAN : AddManual(hookOk)
    \/ \E evt \in AppendPool, hookOk \in BOOLEAN : AppendCorrection(evt, hookOk)
    \/ \E file \in CsvFiles, hookOk \in BOOLEAN : ImportCsv(file, TRUE, hookOk)

SpecAppend == InitQueue /\ [][NextAppend]_vars

\* migrations that succeed or fail at a step, between appends whose index
\* hook returns or raises
NextMigrate ==
    \/ \E targetVersion \in TargetChoices, failAt \in FailChoices :
          MigrateToLatest(targetVersion, failAt)
    \/ \E hookOk \in BOOLEAN : AddManual(hookOk)
    \/ \E evt \in AppendPool, hookOk \in BOOLEAN : AppendCorrection(evt, hookOk)

SpecMigrate == InitQueue /\ [][NextMigrate]_vars

\* the requests made
Req(method, path, key, workspace, local) ==
    [method |-> method, path |-> path, key |-> key, workspace |-> workspace,
     local |-> local]

Requests ==
    {Req("GET", <<"api", "health">>, "", "default", FALSE),
     Req("GET", <<"index.html">>, "", "default", FALSE),
     Req("OPTIONS", <<"api", "manual", "add">>, "", "default", FALSE),
     Req("GET", <<"api", "transactions">>, "writer-key", "default", TRUE),
     Req("HEAD", <<"api", "transactions">>, "team-key", "team-b", TRUE),
     Req("GET", <<"api", "ops", "metrics">>, "ops-key", "default", TRUE),
     Req("POST", <<"api", "manual", "add">>, "", "default", TRUE),
     Req("POST", <<"api", "manual", "add">>, "", "default", FALSE),
     Req("POST", <<"api", "manual", "add">>, "reader-key", "default", TRUE),
     Req("POST", <<"api", "manual", "edit">>, "writer-key", "default", TRUE),
     Req("PUT", <<"api", "manual", "edit">>, "reader-key", "default", TRUE),
     Req("PATCH", <<"api", "manual", "edit">>, "old-key", "default", TRUE),
     Req("DELETE", <<"api", "manual", "delete">>, "off-key", "default", TRUE),
     Req("POST", <<"api", "automation", "tasks">>, "writer-key", "default", TRUE),
     Req("POST", <<"api", "automation", "tasks">>, "auto-key", "default", TRUE),
     Req("POST", <<"api", "automation", "tasks">>, "admin-key", "default", TRUE),
     Req("POST", <<"api", "backup", "create">>, "admin-key", "default", TRUE),
     Req("POST", <<"page">>, "", "default", TRUE)}

\* the application as create_app set it up, without keys or with scoped keys
InitApiRun ==
    /\ InitQueueVars
    /\ InitSched /\ InitAlerts /\ InitDelivery /\ InitLedger /\ InitMigrations
    /\ keyStore \in {EmptyStore, ScopedStore}
    /\ auditLog = <<>>
    /\ response = NoResponse
    /\ InitFiles
    /\ InitWorker

NextApi ==
    \/ Tick(1)
    \/ \E req \in Requests, handler \in {"ok", "http_error", "raises"}, auditOk \in BOOLEAN :
          Request(req, handler, auditOk, MaxAudit)

SpecApi == InitApiRun /\ [][NextApi]_vars

\* writes of one json document, and crashes inside them
NextFiles ==
    \/ \E obj \in JsonObjects(MaxItems) : WriteJsonOpen(obj)
    \/ \E n \in 1..(MaxItems + 3) : WriteJsonFlush(n)
    \/ WriteJsonClose
    \/ CrashInWrite

SpecFiles == InitQueue /\ [][NextFiles]_vars

\* manual entries and corrections, read through the reducer
NextReduce ==
    \/ AddManual(TRUE)
    \/ \E evt \in ReducePool : AppendCorrection(evt, TRUE)

SpecReduce == InitQueue /\ [][NextReduce]_vars

NextSources ==
    \E file \in SourceFiles, sourceType \in {"", "bank_csv"} : RegisterSource(file, sourceType)

SpecSources == InitQueue /\ [][NextSources]_vars

\* ------------------------------------------------------------ queue claims
TaskIds == 1..(Max(MaxTasks, MaxDueTasks) + 1)

\* C1: in every reachable state of the queue every task has
\* attempts <= maxRetries + 1.
AttemptsWithinRetries ==
    \A i \in 1..Len(queue) : queue[i].attempts <= queue[i].maxRetries + 1

LegalStatusChanges ==
    {<<"queued", "running">>, <<"running", "done">>, <<"running", "failed">>,
     <<"running", "queued">>}

\* C2: every change of a task's status is queued->running, running->done,
\* running->failed or running->queued; a done or failed task never changes
\* status again.
StatusChangesLegal ==
    [][\A i \in 1..Len(queue) :
          queue'[i].status # queue[i].status
              => <<queue[i].status, queue'[i].status>> \in LegalStatusChanges]_vars

\* a claim call returns task id in this step
ClaimReturns(id) == grant'[id] # NoGrant /\ grant'[id] # grant[id]

\* the task was not out on a lease of another worker that is still valid
LeaseFree(id) ==
    \/ grant[id] = NoGrant
    \/ grant[id].w = grant'[id].w
    \/ grant'[id].at - grant[id].at > grant'[id].ttl

OneTaskPerSlot ==
    \A i, j \in 1..Len(queue) :
        (i < j /\ queue[i].source \in JobIds /\ queue[i].source = queue[j].source)
            => TaskSlot(queue[i]) # TaskSlot(queue[j])

\* C4, amended: a call creates no task for a job whose slot at `at` is the slot
\* recorded in lastSlots for that job; only the last recorded slot is remembered.
NoTaskForRecordedSlot ==
    [][\A i \in (Len(queue) + 1)..Len(queue') :
          queue'[i].source \in JobIds
              => TaskSlot(queue'[i]) # lastSlots[queue'[i].source]]_vars

\* C4 witness: a later call with another `at` in the slot of a queued task
\* skipped the job.
SkippedInSameSlot ==
    \E i \in 1..Len(queue) :
        /\ queue[i].source \in dueRet.skipped
        /\ queue[i].availableAt # dueRet.at
        /\ TaskSlot(queue[i]) = JobSlot(JobOf(queue[i].source), dueRet.at)

RECURSIVE IsSubseq(_, _)
IsSubseq(a, b) ==
    IF a = <<>> THEN TRUE
    ELSE IF b = <<>> THEN FALSE
    ELSE IF Head(a) = Head(b) THEN IsSubseq(Tail(a), Tail(b))
    ELSE IsSubseq(a, Tail(b))

\* the stored cursor of a channel id, 0 without a row
CursorOf(c) == Max(0, deliveryState[c].cursor)

\* C6: for each channel with cursor c, the events at positions 0..c-1 of
\* events.jsonl were accepted by the channel's sink, in file order.
NeverSkips ==
    \A c \in ChannelIds :
        /\ CursorOf(c) <= Len(events)
        /\ IsSubseq([i \in 1..CursorOf(c) |-> events[i].eventId], sent[c])

\* C6 witness: the webhook channel advanced after a crashed call and a call whose
\* sink failed, and its sink saw an event twice.
AdvancedAfterCrashAndFailure ==
    /\ crashed
    /\ CursorOf("hook") >= 1
    /\ deliveryState["hook"].lastError
    /\ Len(sent["hook"]) > CursorOf("hook")

\* C7: no step lowers the stored cursor of a channel.
CursorNonDecreasing ==
    [][\A c \in ChannelIds : deliveryState'[c].cursor >= deliveryState[c].cursor]_vars

\* C7 witness: a non-dry-run call found a channel whose cursor equals the number
\* of events (two or more) and left it there.
CursorKeptAtEnd ==
    /\ ~deliverRet.dryRun
    /\ Len(events) >= 2
    /\ \E i \in 1..Len(deliverRet.results) :
          /\ deliverRet.results[i].pending = 0
          /\ CursorOf(deliverRet.results[i].channelId) = Len(events)

OutboxChannelIds == {channels[i].id : i \in {k \in 1..Len(channels) : channels[k].type = "outbox"}}

RECURSIVE SumCursors(_)
SumCursors(ids) ==
    IF ids = {} THEN 0
    ELSE LET c == CHOOSE x \in ids : TRUE IN CursorOf(c) + SumCursors(ids \ {c})

MaxCursor(ids) == IF ids = {} THEN 0 ELSE CHOOSE n \in {CursorOf(c) : c \in ids} :
                                            \A c \in ids : CursorOf(c) <= n

\* C8, as stated: after completed deliver calls the outbox file has as many lines
\* as the maximum cursor over the outbox channels.
OutboxLengthIsMaxCursor == ~crashed => Len(outbox) = MaxCursor(OutboxChannelIds)

\* C8, amended: after completed deliver calls the outbox file has as many lines as
\* the sum of the cursors of the outbox channels, and never fewer after a crash.
OutboxLengthIsSumOfCursors ==
    /\ Len(outbox) >= SumCursors(OutboxChannelIds)
    /\ ~crashed => Len(outbox) = SumCursors(OutboxChannelIds)

\* C8 witness: two outbox channels have both delivered and no call crashed.
TwoOutboxChannelsDelivered ==
    /\ ~crashed
    /\ \E a, b \in OutboxChannelIds : a # b /\ CursorOf(a) >= 1 /\ CursorOf(b) >= 1

\* ------------------------------------------------------------ ledger claims
\* the (docId, sourceHash) of a line of transactions.jsonl
SourceRow(tx) == <<Str(Sub(tx, "source"), "docId"), Str(Sub(tx, "source"), "sourceHash")>>

\* C9: an import appends no line whose (docId, sourceHash) a line of
\* transactions.jsonl already carries, also when index updates have failed.
ReimportAppendsNothing ==
    [][\A i \in (Len(txlog) + 1)..Len(txlog') :
          Str(Sub(txlog'[i], "source"), "sourceType") = "bank_csv"
              => \A j \in 1..Len(txlog) : SourceRow(txlog[j]) # SourceRow(txlog'[i])]_vars

\* C10: as long as every index hook succeeded, the index holds for every txId the
\* merged transaction of the reducer view and its deletion flag, and no other row.
IndexMirrorsReducer ==
    ~hookFailed =>
        LET view == ApplyCorrections(txlog, corrlog, TRUE)
        IN  /\ DOMAIN index.tx = {Str(txlog[i], "txId") : i \in 1..Len(txlog)}
            /\ \A i \in 1..Len(txlog) :
                  LET txId == Str(txlog[i], "txId")
                  IN  /\ index.tx[txId].raw_json = view.transactions[i]
                      /\ index.tx[txId].is_deleted = (txId \in view.deletedTxIds)

\* the index holds one row per txId of transactions.jsonl, with the merged
\* transaction of the reducer view and its deletion flag, and no other row
IndexHoldsView ==
    LET view == ApplyCorrections(txlog, corrlog, TRUE)
    IN  /\ DOMAIN index.tx = {Str(txlog[i], "txId") : i \in 1..Len(txlog)}
        /\ \A i \in 1..Len(txlog) :
              LET txId == Str(txlog[i], "txId")
              IN  /\ index.tx[txId].raw_json = view.transactions[i]
                  /\ index.tx[txId].is_deleted = (txId \in view.deletedTxIds)

\* C11: right after rebuild_index, whatever the index held before, the index
\* holds exactly one row per txId of transactions.jsonl with the reducer's
\* merged content and deletion flag, and nothing else.
RebuildRestoresConsistency == [][RebuildIndex => IndexHoldsView']_vars

\* ------------------------------------------------------------ source registry claims
\* sources/index.json holds at most one entry per sha256
OneEntryPerSha(docs) ==
    \A i, j \in 1..Len(docs) : docs[i].sha256 = docs[j].sha256 => i = j

\* C12: after any sequence of register calls sources/index.json holds at most
\* one entry per sha256, and a call for bytes that are already registered,
\* under any file name, returns the docId of the existing entry and leaves the
\* number of entries unchanged.
RegisterIdempotent ==
    [][/\ OneEntryPerSha(sourcesIndex')
       /\ \A i \in 1..Len(sourcesIndex) :
             sourcesIndex[i].sha256 = registerRet'.sha256
                 => /\ registerRet'.docId = sourcesIndex[i].docId
                    /\ Len(sourcesIndex') = Len(sourcesIndex)]_vars

\* the last call registered, under another file name, bytes that were registered
RegisteredAgainUnderOtherName ==
    \E i \in 1..Len(sourcesIndex) :
        /\ sourcesIndex[i].sha256 = registerRet.sha256
        /\ sourcesIndex[i].docId = registerRet.docId
        /\ sourcesIndex[i].originalPath # registerRet.path

\* ------------------------------------------------------------ retry claims
\* C13: a task with maxRetries = m whose executor raised on every run was
\* answered retry_scheduled at most m times and failed at most once, failed
\* only after m retries; once failed its executor has run m + 1 times, its
\* status is failed, and as long as it did not fail it waits in status queued.
RetryUntilExhaustion ==
    \A i \in 1..Len(queue) :
        LET h == hist[queue[i].taskId]
            m == queue[i].maxRetries
        IN  h.dones = 0 =>
                /\ h.execs = h.retries + h.failures
                /\ h.retries <= m
                /\ h.failures <= 1
                /\ h.failures = 1 => (h.retries = m /\ h.execs = m + 1)
                /\ queue[i].status = (IF h.failures = 1 THEN "failed" ELSE "queued")

\* a task with maxRetries = 2 was retried twice and then failed
FailedAfterTwoRetries ==
    \E i \in 1..Len(queue) :
        /\ queue[i].maxRetries = 2
        /\ hist[queue[i].taskId] =
              [execs |-> 3, dones |-> 0, retries |-> 2, failures |-> 1, delay |-> 2]
        /\ queue[i].status = "failed"

\* C14: when run_next_task answers retry_scheduled for the k-th attempt of a
\* task, the task is queued with availableAt = now + 2^max(0, k-1), is no
\* candidate of a claim at that moment, and the delay is greater than the delay
\* of the task's previous retry.
BackoffGrows ==
    [][\A i \in 1..Len(queue) :
          LET id == queue[i].taskId
          IN  hist'[id].retries > hist[id].retries =>
                  /\ hist'[id].delay = Pow2(Max(0, held[ret'.w].attempts - 1))
                  /\ queue'[i].status = "queued"
                  /\ queue'[i].availableAt = now + hist'[id].delay
                  /\ i \notin Candidates(queue', now', 1)
                  /\ hist[id].retries > 0 => hist'[id].delay > hist[id].delay]_vars

\* ------------------------------------------------------------ reclaim claims
AllTerminal == \A i \in 1..Len(queue) : queue[i].status \in {"done", "failed"}

RunNeverPropagates ==
    [][/\ ret'.status \in {"none", "idle", "done", "retry_scheduled", "failed"}
       /\ \A i \in 1..Len(queue) :
             hist'[queue[i].taskId].execs > hist[queue[i].taskId].execs =>
                 /\ queue'[i].status \in {"done", "queued", "failed"}
                 /\ ret'.status = Returned(queue'[i].status)
                 /\ ret'.status \in {"retry_scheduled", "failed"} => queue'[i].error
                 /\ queue[i].taskType \notin TaskTypes => ret'.status # "done"
       /\ \A i \in 1..Len(queue') : queue'[i].status # "running"]_vars

\* a task of an unsupported type was answered failed and carries the error
UnsupportedTypeFailed ==
    \E i \in 1..Len(queue) :
        /\ queue[i].taskType = "unknown.task"
        /\ queue[i].status = "failed"
        /\ queue[i].error
        /\ ret.status = "failed"

FailsAfter(channel, failAt) ==
    IF channel.type \notin {"outbox", "stdout", "webhook"} THEN 0
    ELSE IF channel.type = "webhook" /\ channel.url = "" THEN 0
    ELSE IF channel.type = "webhook" THEN failAt
    ELSE NoVal

EventIds(evs) == [i \in 1..Len(evs) |-> evs[i].eventId]

OutboxOf(lines, c) == SelectSeq(lines, LAMBDA row : row.channelId = c)

\* C18: in a non-dry-run deliver call, a channel whose sink fails after k of its
\* pending events has its cursor advanced by exactly k, its sink gets those k
\* events and no later one, the call reports failed = 1 and the state row
\* records the error; every other selected channel of the call gets all of
\* its own pending events and its cursor advanced by their number.
FailureStopsChannelOnly ==
    [][\A c \in DeliverCalls :
          (~c[3] /\ Deliver(c[1], c[2], c[3], c[4])) =>
              LET chs == Selected(c[2])
              IN  /\ Len(deliverRet'.results) = Len(chs)
                  /\ \A i \in 1..Len(chs) :
                        LET id == chs[i].id
                            before == IF CursorOf(id) > Len(events) THEN 0 ELSE CursorOf(id)
                            pend == SubSeq(events, before + 1,
                                           IF c[1] >= 0 THEN Min(Len(events), before + c[1])
                                           ELSE Len(events))
                            k == FailsAfter(chs[i], c[4])
                            fails == k # NoVal /\ k < Len(pend)
                            n == IF fails THEN k ELSE Len(pend)
                        IN  /\ deliveryState'[id].cursor = before + n
                            /\ sent'[id] = sent[id] \o SubSeq(EventIds(pend), 1, n)
                            /\ deliveryState'[id].lastError = fails
                            /\ deliverRet'.results[i] =
                                  [channelId |-> id, pending |-> Len(pend), delivered |-> n,
                                   failed |-> IF fails THEN 1 ELSE 0]]_vars

\* the webhook channel failed after one of two pending events, and the outbox
\* channel behind it in the list got both
FailedChannelThenNext ==
    /\ ~deliverRet.dryRun
    /\ Len(deliverRet.results) = 2
    /\ deliverRet.results[1] = [channelId |-> "hook", pending |-> 2, delivered |-> 1,
                                failed |-> 1]
    /\ deliverRet.results[2] = [channelId |-> "local_outbox", pending |-> 2,
                                delivered |-> 2, failed |-> 0]
    /\ deliveryState["hook"].lastError
    /\ CursorOf("local_outbox") = 2

\* what C19 says of a deliver call for a channel that has nothing left to send
NothingSent(c, id) ==
    /\ \A i \in 1..Len(deliverRet'.results) :
          deliverRet'.results[i].channelId = id =>
              deliverRet'.results[i].pending = 0 /\ deliverRet'.results[i].delivered = 0
    /\ sent'[id] = sent[id]
    /\ OutboxOf(outbox', id) = OutboxOf(outbox, id)
    /\ CursorOf(id) = deliveryState'[id].cursor

\* C19, as stated: if the last deliver call was not a dry run, reported no
\* failure for a channel, and no event was appended since, a further deliver
\* call reports delivered = 0 and pending = 0 for the channel, calls no sink
\* and leaves the outbox file and the cursor unchanged.
NoRepeatAfterSuccess ==
    [][\A c \in DeliverCalls :
          Deliver(c[1], c[2], c[3], c[4]) =>
              \A i \in 1..Len(deliverRet.results) :
                  (/\ ~deliverRet.dryRun
                   /\ deliverRet.eventCount = Len(events)
                   /\ deliverRet.results[i].failed = 0)
                      => NothingSent(c, deliverRet.results[i].channelId)]_vars

\* C19, amended: if the stored cursor of a channel equals the number of events
\* (the channel was delivered every event and none was appended since), a
\* further deliver call reports delivered = 0 and pending = 0 for the channel,
\* calls no sink and leaves the outbox file and the cursor unchanged.
NoRepeatAtEnd ==
    [][\A c \in DeliverCalls :
          Deliver(c[1], c[2], c[3], c[4]) =>
              \A id \in ChannelIds :
                  deliveryState[id].cursor = Len(events) => NothingSent(c, id)]_vars

\* a call that was not a dry run found every event delivered to both channels
\* and reported nothing pending
SecondCallDeliveredNothing ==
    /\ ~deliverRet.dryRun
    /\ deliverRet.eventCount >= 1
    /\ Len(deliverRet.results) = 2
    /\ \A i \in 1..2 : /\ deliverRet.results[i].pending = 0
                        /\ deliverRet.results[i].delivered = 0
                        /\ CursorOf(deliverRet.results[i].channelId) = deliverRet.eventCount
    /\ Len(outbox) >= 1

\* C20: enqueueTask(type, payload, runAt, maxRetries, source) adds exactly one
\* task with status = queued, attempts = 0 and availableAt = max(now, runAt)
\* (a runAt in the past yields availableAt = now) and leaves every existing
\* task of the queue unchanged.
EnqueueAvailableAtMax ==
    [][\A r \in RunAtChoices, m \in MaxRetriesChoices :
          EnqueueTask(MaxTasks, r, m) =>
              /\ Len(queue') = Len(queue) + 1
              /\ SubSeq(queue', 1, Len(queue)) = queue
              /\ queue'[Len(queue')].status = "queued"
              /\ queue'[Len(queue')].attempts = 0
              /\ queue'[Len(queue')].availableAt = Max(now, ParseTs(r, now))]_vars

\* the rows that are queued and due at time t, or running with a lock older
\* than `lease` seconds
DueOrExpired(doc, t, lease) ==
    {i \in 1..Len(doc) :
        \/ doc[i].status = "queued" /\ doc[i].availableAt <= t
        \/ doc[i].status = "running" /\ t - doc[i].lockedAt > lease}

\* what a _claim_next_task call of worker w did, measured against the rows
\* that were due or expired for a lease of `lease` seconds: nothing returned
\* exactly when there was none, else one of them with the smallest availableAt
ClaimedEarliest(w, lease) ==
    LET c == DueOrExpired(queue, now, lease)
    IN  /\ (ret'.status = "idle") = (c = {})
        /\ c # {} =>
              \E i \in c :
                  /\ held'[w].taskId = queue[i].taskId
                  /\ \A j \in c : queue[i].availableAt <= queue[j].availableAt

\* C21: claimNextTask returns a task T only if T is queued with
\* availableAt <= now, or running with now - lockedAt > lockTtlSeconds; T has
\* the smallest availableAt among all such candidates; and it returns nothing
\* exactly when no such candidate exists.
ClaimReturnsEarliestCandidate ==
    [][\A w \in Workers, s \in LockTtlChoices :
          ClaimNextTask(w, s) => ClaimedEarliest(w, s)]_vars

\* C21, amended: the same with the lease the code uses, max(1, lockTtlSeconds)
\* seconds.
ClaimReturnsEarliestWithinLease ==
    [][\A w \in Workers, s \in LockTtlChoices :
          ClaimNextTask(w, s) => ClaimedEarliest(w, LockTtl(s))]_vars

\* a claim has just returned the second task of the file while the first one,
\* due as well but with a later availableAt, stays queued
ClaimedSecondBeforeFirst ==
    \E w \in Workers :
        /\ Len(queue) >= 2
        /\ pc[w] = "running"
        /\ held[w].taskId = queue[2].taskId
        /\ queue[2].status = "running"
        /\ queue[2].lockedAt = now
        /\ queue[1].status = "queued"
        /\ queue[1].availableAt <= now
        /\ queue[2].availableAt < queue[1].availableAt

\* the reducer view over the two files, deleted transactions included: its
\* i-th transaction belongs to the i-th line of transactions.jsonl
FullView == ApplyCorrections(txlog, corrlog, TRUE)

\* the reducer view without the deleted transactions
ShownView == ApplyCorrections(txlog, corrlog, FALSE)

\* the txIds of transactions.jsonl that a tombstone or delete event names
Tombstoned ==
    {Str(txlog[i], "txId") : i \in 1..Len(txlog)}
        \cap {corrlog[k].txId : k \in {j \in 1..Len(corrlog) :
                                        corrlog[j].type \in {"tombstone", "delete"}}}

\* the events of a txId that the reducer merges
AppliedPatches(corrs, txId) ==
    SelectSeq(corrs, LAMBDA e : /\ e.txId = txId
                                /\ EventType(e) = "patch"
                                /\ e.patch.t = "d"
                                /\ DOMAIN e.patch.v # {})

\* C22: once corrections.jsonl contains a tombstone or delete event for an
\* existing txId, every later reduction with includeDeleted=false omits that
\* transaction and lists the txId in deletedTxIds, whatever corrections are
\* appended afterwards; with includeDeleted=true the transaction is present
\* with all its patches applied.
TombstonesPermanent ==
    \A i \in 1..Len(txlog) :
        LET id == Str(txlog[i], "txId")
            ps == AppliedPatches(corrlog, id)
        IN  id \in Tombstoned =>
                /\ id \in ShownView.deletedTxIds
                /\ id \in FullView.deletedTxIds
                /\ \A j \in 1..Len(ShownView.transactions) :
                       ShownView.transactions[j] # FullView.transactions[i]
                /\ Len(FullView.transactions) = Len(txlog)
                /\ ps # <<>> =>
                       FullView.transactions[i]
                           = DeepMerge(FullView.transactions[i], ps[Len(ps)].patch.v)

\* every value the patch names is in the dictionary, whole if it is not a
\* dictionary, key by key if it is one
RECURSIVE Carries(_, _)
Carries(d, patch) ==
    \A k \in DOMAIN patch :
        /\ k \in DOMAIN d
        /\ IF patch[k].t = "d" /\ d[k].t = "d" /\ d[k] # patch[k]
           THEN Carries(d[k].v, patch[k].v)
           ELSE d[k] = patch[k]

\* no key path that one of the patches sets is set by the other
RECURSIVE DisjointPatches(_, _)
DisjointPatches(p, q) ==
    \A k \in DOMAIN p \cap DOMAIN q :
        /\ p[k].t = "d"
        /\ q[k].t = "d"
        /\ DisjointPatches(p[k].v, q[k].v)

\* corrections.jsonl with the lines k and k + 1 exchanged
Exchanged(corrs, k) ==
    [i \in 1..Len(corrs) |->
        IF i = k THEN corrs[k + 1] ELSE IF i = k + 1 THEN corrs[k] ELSE corrs[i]]

\* C23: corrections are applied in file order only: when several patch events
\* of one txId set the same field, the view carries the value of the one that
\* comes last in corrections.jsonl, whatever the `at` timestamps or eventIds of
\* the events; two neighbouring patch events of one txId that touch disjoint
\* fields give the same view in either order.
FileOrderDecides ==
    /\ \A i \in 1..Len(txlog) :
          LET ps == AppliedPatches(corrlog, Str(txlog[i], "txId"))
          IN  \A k \in 1..Len(ps) :
                  LET own == ps[k].patch.v
                      free == {f \in DOMAIN own :
                                  \A m \in (k + 1)..Len(ps) : f \notin DOMAIN ps[m].patch.v}
                  IN  Carries(FullView.transactions[i], [f \in free |-> own[f]])
    /\ \A k \in 1..(Len(corrlog) - 1) :
          (/\ corrlog[k].txId = corrlog[k + 1].txId
           /\ AppliedPatches(<<corrlog[k], corrlog[k + 1]>>, corrlog[k].txId)
                  = <<corrlog[k], corrlog[k + 1]>>
           /\ DisjointPatches(corrlog[k].patch.v, corrlog[k + 1].patch.v))
              => \A b \in BOOLEAN :
                     ApplyCorrections(txlog, Exchanged(corrlog, k), b)
                         = ApplyCorrections(txlog, corrlog, b)

\* two patches of category.id for the first transaction, the one with the
\* earlier `at` and the smaller eventId last in the file, and the view shows
\* the value of that last line
LaterLineWon ==
    /\ Len(txlog) >= 1
    /\ Len(corrlog) = 2
    /\ corrlog[1].patch = CategoryPatch
    /\ corrlog[2].patch = TravelPatch
    /\ corrlog[1].txId = Str(txlog[1], "txId")
    /\ corrlog[2].txId = Str(txlog[1], "txId")
    /\ corrlog[2].type = "patch"
    /\ corrlog[2].at < corrlog[1].at
    /\ Str(Sub(FullView.transactions[1], "category"), "id") = "travel"

\* the line and its view agree wherever no patch of the set names a key:
\* outside the keys the patches name, and inside a dictionary that every
\* patch naming it merges into
RECURSIVE SameOutside(_, _, _)
SameOutside(line, view, patches) ==
    \A k \in DOMAIN line \cup DOMAIN view :
        LET naming == {p \in patches : k \in DOMAIN p}
        IN  IF naming = {}
            THEN k \in DOMAIN line /\ k \in DOMAIN view /\ view[k] = line[k]
            ELSE (/\ k \in DOMAIN line
                  /\ line[k].t = "d"
                  /\ \A p \in naming : p[k].t = "d")
                     => /\ view[k].t = "d"
                        /\ SameOutside(line[k].v, view[k].v, {p[k].v : p \in naming})

\* the events the reducer has a branch for, aimed at a transaction of the file
KnownEvents(txs, corrs) ==
    SelectSeq(corrs, LAMBDA e :
        /\ e.txId \in {Str(txs[i], "txId") : i \in 1..Len(txs)}
        /\ EventType(e) \in {"patch", "tombstone", "delete"})

\* C24: in the reducer view a transaction differs from its line in
\* transactions.jsonl only at keys named by applied patches; a dictionary patch
\* merges key by key into an existing dictionary (sibling keys kept), a
\* non-dictionary value or a list replaces the old value wholesale, and events
\* with an unknown txId or an unknown type change nothing in the view.
MergeKeepsUnnamed ==
    /\ \A i \in 1..Len(txlog) :
          LET ps == AppliedPatches(corrlog, Str(txlog[i], "txId"))
              last == ps[Len(ps)].patch.v
          IN  /\ SameOutside(txlog[i], FullView.transactions[i],
                             {ps[k].patch.v : k \in 1..Len(ps)})
              /\ ps # <<>> =>
                    \A k \in DOMAIN last :
                        last[k].t # "d" => FullView.transactions[i][k] = last[k]
    /\ \A b \in BOOLEAN :
          ApplyCorrections(txlog, KnownEvents(txlog, corrlog), b)
              = ApplyCorrections(txlog, corrlog, b)

\* a patch of category.reason, a list patch of tags and an event of unknown
\* type were reduced: category.id is the one of the line, category.reason the
\* patched one, and tags is the list of the patch alone
SiblingKeptListReplaced ==
    /\ Len(txlog) >= 1
    /\ \E j, k \in 1..Len(corrlog) :
          /\ corrlog[j].patch = ReasonPatch /\ corrlog[j].type = "patch"
          /\ corrlog[k].patch = TagsPatch
          /\ corrlog[j].txId = Str(txlog[1], "txId")
          /\ corrlog[k].txId = Str(txlog[1], "txId")
    /\ FullView.transactions[1].category = D([id |-> S("uncategorized"), reason |-> S("user")])
    /\ FullView.transactions[1].tags = L(<<"x", "y">>)
    /\ FullView.transactions[1].merchant = txlog[1].merchant

\* what run_alerts(at, commit=false) returns in the current state: the rules
\* it fires and whether it raises
DryRunOutcome(at) ==
    LET acc == AlertLoop(alertRules, Len(alertRules), at, FALSE,
                         [events |-> events, rules |-> alertState.rules, fired |-> <<>>,
                          raised |-> FALSE])
    IN  [fired |-> FiredRules(acc), raised |-> acc.raised]

\* C25: run_alerts with commit=false writes nothing: alerts/events.jsonl and
\* alerts/state.json (every rule's lastTriggeredPeriodKey, and lastRun) are
\* unchanged by the call, so the same call repeated returns the same fired
\* rules every time.
DryRunAlertsWritesNothing ==
    [][\A at \in AlertDates :
          RunAlerts(at, FALSE) =>
              /\ events' = events
              /\ alertState' = alertState
              /\ alertRules' = alertRules
              /\ ledger' = ledger
              /\ [fired |-> alertRet'.fired, raised |-> alertRet'.raised] = DryRunOutcome(at)
              /\ DryRunOutcome(at)' = DryRunOutcome(at)]_vars

\* a run without commit has just fired a rule over a ledger that breaks its
\* limit: no event is in the file and no period key in the state
DryRunFired ==
    /\ ~alertRet.commit
    /\ alertRet.at # NoVal
    /\ Len(alertRet.fired) >= 1
    /\ events = <<>>
    /\ alertState.lastRun = NoVal
    /\ \A r \in AlertRuleIds : alertState.rules[r] = NoKey

\* a deliver call in dry run left the outbox file, the delivery state and the
\* sinks alone
DryRunFrame ==
    /\ outbox' = outbox
    /\ deliveryState' = deliveryState
    /\ deliveryLastRun' = deliveryLastRun
    /\ sent' = sent

\* the results the call would return, and the events its sinks would accept,
\* were it made without dryRun
RealResults(c) ==
    LET chs == Selected(c[2])
    IN  DeliverLoop(chs, Len(chs), c[1], FALSE, c[4], DeliverAcc).results

\* C26: deliver with dryRun=true writes nothing: the outbox file and the
\* delivery state (every channel's cursor, lastRun) are unchanged and no sink
\* is called, while the call reports as delivered the number of pending events
\* it would have sent.
DryRunReportsWhatWouldBeSent ==
    [][\A c \in DeliverCalls :
          (c[3] /\ Deliver(c[1], c[2], c[3], c[4])) =>
              /\ DryRunFrame
              /\ Len(deliverRet'.results) = Len(RealResults(c))
              /\ \A i \in 1..Len(deliverRet'.results) :
                    deliverRet'.results[i].delivered = RealResults(c)[i].delivered]_vars

\* the number of events after the cursor of the channel, cut at the limit
PendingCount(id, limit) ==
    IF limit >= 0 THEN Min(limit, Len(events) - CursorOf(id)) ELSE Len(events) - CursorOf(id)

\* C26, amended: deliver with dryRun=true writes nothing and calls no sink, and
\* reports for every selected channel delivered = pending = the number of
\* events after its cursor (at most limit) and failed = 0, whether or not the
\* sink of the channel would accept them.
DryRunReportsPending ==
    [][\A c \in DeliverCalls :
          (c[3] /\ Deliver(c[1], c[2], c[3], c[4])) =>
              /\ DryRunFrame
              /\ Len(deliverRet'.results) = Len(Selected(c[2]))
              /\ \A i \in 1..Len(deliverRet'.results) :
                    LET r == deliverRet'.results[i]
                    IN  /\ r.channelId = Selected(c[2])[i].id
                        /\ r.pending = PendingCount(r.channelId, c[1])
                        /\ r.delivered = r.pending
                        /\ r.failed = 0]_vars

\* a dry run has just reported an event as delivered for each of two channels
\* that no call has delivered anything to: no row, no lastRun, no outbox line
DryRunReported ==
    /\ deliverRet.dryRun
    /\ Len(deliverRet.results) = 2
    /\ \A i \in 1..2 : /\ deliverRet.results[i].delivered = 1
                        /\ deliveryState[deliverRet.results[i].channelId] = NoRow
    /\ deliveryLastRun = NoVal
    /\ outbox = <<>>
    /\ \A id \in ChannelIds : sent[id] = <<>>

\* C27: an index update failure never fails an append: when the index update
\* triggered by an append to transactions.jsonl or corrections.jsonl raises,
\* the append call still returns normally and the record is the last line of
\* the file.
HookFailureNeverFailsAppend ==
    [][/\ AddManual(FALSE) =>
            /\ ~appendRaised'
            /\ txlog' = Append(txlog, ManualTx(Len(txlog) + 1))
       /\ \A evt \in AppendPool :
             AppendCorrection(evt, FALSE) =>
                 /\ ~appendRaised'
                 /\ corrlog' = Append(corrlog, evt)
       /\ \A file \in CsvFiles :
             (ImportCsv(file, TRUE, FALSE) /\ importRet'.imported > 0) =>
                 /\ ~appendRaised'
                 /\ Len(txlog') = Len(txlog) + importRet'.imported
                 /\ SubSeq(txlog', 1, Len(txlog)) = txlog]_vars

\* the index hook raised on the appends of a transaction and of a correction:
\* both lines are in their files, the index has neither, no call raised
AppendedWithoutIndex ==
    /\ hookFailed
    /\ ~appendRaised
    /\ Len(txlog) = 1
    /\ Len(corrlog) = 1
    /\ corrlog[1].eventId # ""
    /\ index = [tx |-> EmptyDict, corr |-> {}]

\* C28: migrateToLatest applies the missing steps strictly in ascending order,
\* appends one history entry per applied step and persists the state after
\* each step; if step k fails, the persisted state has version = k - 1 and
\* history entries exactly for the steps applied so far, and a later call
\* resumes at step k; a call at the latest version applies nothing.
MigrationStepsPersisted ==
    [][\A targetVersion \in TargetChoices, failAt \in FailChoices :
          MigrateToLatest(targetVersion, failAt) =>
              LET from == schemaState.version
                  target == Target(targetVersion)
                  applied == migrateRet'.applied
                  fails == failAt \in (from + 1)..target
              IN  /\ \A i \in 1..Len(applied) : applied[i] = from + i
                  /\ schemaState'.history = schemaState.history \o applied
                  /\ schemaState'.version = from + Len(applied)
                  /\ schemaState'.history = [i \in 1..schemaState'.version |-> i]
                  /\ fails => /\ migrateRet'.raised
                              /\ schemaState'.version = failAt - 1
                  /\ (~fails /\ target >= 0) =>
                        /\ ~migrateRet'.raised
                        /\ schemaState'.version = Max(from, target)
                  /\ from >= APP_SCHEMA_VERSION =>
                        /\ applied = <<>>
                        /\ schemaState' = schemaState]_vars

\* a call from version 0 applied step 1 and raised in step 2: the state file
\* holds version 1 and the history entry of step 1
FailedAtSecondStep ==
    /\ migrateRet.raised
    /\ migrateRet.fromVersion = 0
    /\ migrateRet.applied = <<1>>
    /\ schemaState = [version |-> 1, history |-> <<1>>]

\* the key holds the scope s, or a scope the specification lets stand for it
HoldsOrImplied(meta, s) ==
    \/ s \in meta.scopes
    \/ s = "read" /\ "write" \in meta.scopes
    \/ s \in {"read", "write"} /\ "admin" \in meta.scopes

HandlerEnds == {"ok", "http_error", "raises"}

\* C29: with keys configured, a request on /api/ other than /api/health and
\* OPTIONS reaches its handler only if the presented key is in the store,
\* enabled, not expired, and holds every required scope of the request, where
\* write stands for read and admin for read and write and nothing else stands
\* for automation, ops or admin.
ServedOnlyWithScopes ==
    [][\A req \in Requests, handler \in HandlerEnds, auditOk \in BOOLEAN :
         (/\ Request(req, handler, auditOk, MaxAudit)
          /\ keyStore # EmptyStore
          /\ ~RequiredScopes(req.method, req.path).none
          /\ response'.served)
         => /\ req.key \in DOMAIN keyStore
            /\ LET meta == keyStore[req.key]
                    scopes == RequiredScopes(req.method, req.path).scopes
                IN  /\ meta.enabled
                    /\ ~Expired(meta, now)
                    /\ \A k \in 1..Len(scopes) : HoldsOrImplied(meta, scopes[k])]_vars

\* C30: a POST, PUT, PATCH or DELETE request on /api/, served, denied or
\* failing inside its handler, appends exactly one record to the audit log
\* when the append succeeds; any other request appends none; a failing append
\* leaves the log and the response as they would be.
AuditedExactlyOnce ==
    [][\A req \in Requests, handler \in HandlerEnds, auditOk \in BOOLEAN :
         Request(req, handler, auditOk, MaxAudit)
         => IF IsApi(req.path) /\ req.method \in AuditedMethods /\ auditOk
            THEN /\ Len(auditLog') = Len(auditLog) + 1
                 /\ SubSeq(auditLog', 1, Len(auditLog)) = auditLog
                 /\ auditLog'[Len(auditLog')].method = req.method
                 /\ auditLog'[Len(auditLog')].path = req.path
            ELSE auditLog' = auditLog]_vars

\* C31: a crash at any point of a write of a json document leaves the file
\* with the whole old text or the whole new text, never an empty or partial
\* document.
CrashLeavesOldOrNew ==
    fileWrite.crashed
    => /\ fileText \in {fileWrite.old, JsonText(fileWrite.obj)}
       /\ Loads(fileText, MaxItems)

\* the schedules the specification allows
ValidSchedule(sch) ==
    \/ sch.freq = "daily" /\ ParseHm(sch.at) # NoVal
    \/ /\ sch.freq = "weekly"
       /\ sch.day \in {"mon", "tue", "wed", "thu", "fri", "sat", "sun"}
       /\ ParseHm(sch.at) # NoVal
    \/ sch.freq = "hourly" /\ sch.interval >= 1

ValidSchedules(doc) == \A k \in 1..Len(doc) : ValidSchedule(doc[k].schedule)

\* C32: write_jobs rejects every jobs document with a job whose schedule is
\* not daily with at = HH:MM, weekly with day in mon..sun and at, or hourly
\* with interval >= 1, and leaves jobs.json as it was; so every stored job has
\* such a schedule.
WriteJobsRejectsBadSchedule ==
    [][\A doc \in JobsPayloads :
         (WriteJobs(doc) /\ ~ValidSchedules(doc))
         => (jobs' = jobs /\ ValidSchedules(jobs'))]_vars

\* some _finish_task call has written the task as done or failed
EverFinished(id) == hist[id].dones + hist[id].failures > 0

\* C33: in every reachable state of the queue each task with status done or
\* failed has finishedAt set, and no task with status queued or running that
\* was never finished has it.
FinishedAtWithTerminal ==
    \A i \in 1..Len(queue) :
        /\ queue[i].status \in {"done", "failed"} => queue[i].finishedAt
        /\ (queue[i].status \in {"queued", "running"} /\ ~EverFinished(queue[i].taskId))
           => ~queue[i].finishedAt

\* a task that went back to queued after a failed attempt, ran again, and
\* carries its finishedAt
RetriedThenStamped ==
    \E i \in 1..Len(queue) :
        /\ queue[i].status \in {"done", "failed"}
        /\ hist[queue[i].taskId].retries >= 1
        /\ queue[i].finishedAt

\* every task an enqueue_task call returned has a row in queue.json
AllTasksPresent == \A id \in 1..(nextId - 1) : FirstRow(queue, id) # 0

\* C34 as stated: under any interleaving of enqueue, claim and finish calls
\* of concurrent callers no task is lost from queue.json: every task an
\* enqueue_task call returned is still in the file, terminal tasks included.
NoTaskLost == AllTasksPresent

\* C34 amended: the same, as long as no call has rewritten queue.json from a
\* document that another call had replaced since it was read.
NoTaskLostWithoutLostUpdate == ~lostUpdate => AllTasksPresent

\* C34 witness: two tasks were enqueued, one of them is finished and kept, and
\* no write started from a stale document
TerminalTaskKept ==
    /\ ~lostUpdate
    /\ nextId = 3
    /\ AllTasksPresent
    /\ \E i \in 1..Len(queue) : queue[i].status \in {"done", "failed"}

\* C35: the slot of every task an enqueue_due_jobs call enqueued is recorded
\* in lastSlots when the call ends, also when it ends early because
\* evaluating a later job of the list raised; so a following call in the
\* same slot does not enqueue a second task for the job.
SlotRecordedDespiteAbort ==
    [][\A at \in AtChoices :
         EnqueueDueJobs(at)
         => \A i \in (Len(queue) + 1)..Len(queue') :
               queue'[i].source \in JobIds
                   => lastSlots'[queue'[i].source] = TaskSlot(queue'[i])]_vars

\* the last event of events.jsonl for the rule, as a set: empty if none
LastEventOf(evs, ruleId) ==
    {evs[i] : i \in {j \in 1..Len(evs) :
                        /\ evs[j].ruleId = ruleId
                        /\ \A m \in (j + 1)..Len(evs) : evs[m].ruleId # ruleId}}

\* C36: a committed run_alerts appends no event for a (ruleId, periodKey)
\* that the last event of the rule in events.jsonl already carries for the
\* same scopeDate, also when the run that appended that event stopped before
\* state.json was saved.
NoSecondEventAfterCrash ==
    [][\A at \in AlertDates :
         RunAlerts(at, TRUE)
         => \A i \in (Len(events) + 1)..Len(events') :
               \A e \in LastEventOf(events, events'[i].ruleId) :
                   ~(e.periodKey = events'[i].periodKey /\ e.scopeDate = at)]_vars

\* the job of jobs.json with the id
StoredJob(id) == jobs[CHOOSE k \in 1..Len(jobs) : jobs[k].id = id]

\* C37: the task enqueue_due_jobs creates for a job carries the job's task
\* definition: its taskType and maxRetries are the job's task.type and
\* task.maxRetries, for every maxRetries >= 0 and 0 as well, and its source
\* names the job.
TaskCarriesJobDefinition ==
    [][\A at \in AtChoices :
         EnqueueDueJobs(at)
         => \A i \in (Len(queue) + 1)..Len(queue') :
               /\ queue'[i].source \in {jobs[k].id : k \in 1..Len(jobs)}
               /\ queue'[i].taskType = StoredJob(queue'[i].source).taskType
               /\ queue'[i].maxRetries = StoredJob(queue'[i].source).maxRetries]_vars

\* the slot of the schedule is active at `at`, in the words of the specification
SlotActive(sch, at) ==
    CASE sch.freq = "daily" -> SecondOfDay(at) >= ParseHm(sch.at)
      [] sch.freq = "weekly" ->
            WeekdayName(at) = sch.day /\ SecondOfDay(at) >= ParseHm(sch.at)
      [] sch.freq = "hourly" -> HourOf(at) % sch.interval = 0
      [] OTHER -> FALSE

\* instants of two weeks: a Monday, the Tuesday after it and the Tuesday of
\* the next week, two hours of the day, two minutes of the hour
SlotInstants ==
    {d * 86400 + h * 3600 + m * 60 : d \in {0, 1, 8}, h \in {7, 8}, m \in {0, 40}}

\* one job of each kind of schedule
SlotJobs ==
    {Job("daily_build", TRUE, "daily", "08:00", "", 0, "build", 1),
     Job("weekly_report", TRUE, "weekly", "07:30", "tue", 0, "report.monthly", 1),
     Job("hourly_alerts", TRUE, "hourly", "", "", 7, "alerts.run", 1),
     Job("hourly_alerts", TRUE, "hourly", "", "", 1, "alerts.run", 1)}

\* _job_slot gives a slot exactly when the schedule is active, and two active
\* instants get the same key exactly when they lie in the same calendar day
\* (daily, weekly) or the same clock hour (hourly)
SlotKeysByDayOrHour ==
    \A job \in SlotJobs : \A a \in SlotInstants :
        /\ (JobSlot(job, a) # NoSlot) = SlotActive(job.schedule, a)
        /\ \A b \in SlotInstants :
              (SlotActive(job.schedule, a) /\ SlotActive(job.schedule, b))
              => ((JobSlot(job, a) = JobSlot(job, b))
                  = IF job.schedule.freq = "hourly"
                    THEN DayOf(a) = DayOf(b) /\ HourOf(a) = HourOf(b)
                    ELSE DayOf(a) = DayOf(b))

\* C38: enqueue_due_jobs(at) creates a task only for an enabled job whose slot
\* is active at `at` (daily: time of day >= HH:MM; weekly: the configured
\* weekday and time of day >= HH:MM; hourly(N): hour mod N = 0); two instants
\* have the same slot key exactly when they lie in the same calendar day
\* (daily, weekly) or clock hour (hourly); a disabled job gets no task and
\* its lastSlots entry stays as it was.
TasksOnlyForActiveSlots ==
    [][\A at \in AtChoices :
         EnqueueDueJobs(at)
         => /\ \A i \in (Len(queue) + 1)..Len(queue') :
                  /\ queue'[i].source \in {jobs[k].id : k \in 1..Len(jobs)}
                  /\ StoredJob(queue'[i].source).enabled
                  /\ SlotActive(StoredJob(queue'[i].source).schedule, at)
            /\ \A k \in 1..Len(jobs) :
                  ~jobs[k].enabled
                  => /\ lastSlots'[jobs[k].id] = lastSlots[jobs[k].id]
                     /\ \A i \in (Len(queue) + 1)..Len(queue') :
                           queue'[i].source # jobs[k].id
            /\ SlotKeysByDayOrHour]_vars

\* C38 witness: a call created the task of the weekly job on its weekday and
\* passed over the disabled job of the same document
WeeklyCreatedDisabledPassed ==
    /\ "weekly_report" \in dueRet.created
    /\ \E k \in 1..Len(jobs) : jobs[k].id = "off" /\ ~jobs[k].enabled
    /\ lastSlots["off"] = NoSlot
    /\ \E i \in 1..Len(queue) :
          /\ queue[i].source = "weekly_report"
          /\ queue[i].availableAt = dueRet.at
          /\ WeekdayName(dueRet.at) = "tue"

\* C39: run_worker(workerId, maxTasks, pollSeconds) runs at most maxTasks
\* tasks for every maxTasks >= 0, stops at the first idle result, and reports
\* processed = done + failed + retried, with processed the number of tasks
\* it claimed.
WorkerRunsAtMostMaxTasks ==
    [][\A c \in WorkerCalls :
         RunWorker("w1", c[1], c[2], c[3], MaxTime)
         => /\ workerRet'.processed <= c[1]
            /\ workerRet'.processed = workerRet'.done + workerRet'.failed + workerRet'.retried
            /\ workerRet'.processed = workerRet'.claimed
            /\ workerRet'.idle => Candidates(queue', now', LockTtl(300)) = {}
            /\ ~workerRet'.idle => workerRet'.processed = Iterations(c[1])]_vars

====
